---- MODULE Spec2Model ----
(***************************************************************************)
(* A model of the Tailscale SSH server (ssh/tailssh/tailssh.go): the       *)
(* policy matcher, the action resolver, the session registry, the session  *)
(* runtime and the public-key cache.                                       *)
(***************************************************************************)
EXTENDS Integers, Sequences, FiniteSets, TLC

VARIABLES
    \* ---- policy matcher (evalSSHPolicy applied to an input) ----
    pol,        \* the *tailcfg.SSHPolicy handed to evalSSHPolicy
    ci,         \* the *sshConnInfo handed to evalSSHPolicy
    evalRes,    \* what evalSSHPolicy returned, or NotEvaluated
    auth,       \* a connection in its auth phase: the answers of the two callbacks
    \* ---- public-key cache (server.fetchPublicKeysURL) ----
    now,                    \* srv.now(), in seconds
    fetchPublicKeysCache,   \* srv.fetchPublicKeysCache, for the URLs of CacheURLs
    cacheOthers,            \* the number of its entries for other URLs
    call,                   \* the fetchPublicKeysURL call of each caller
    \* ---- server and sessions ----
    policy,                     \* the SSHPolicy of the current netmap (srv.sshPolicy)
    policyChanges,              \* how many times the policy has changed
    euid,                       \* os.Geteuid() of the process
    activeSessionByH,           \* srv.activeSessionByH: idH -> session, 0 = absent
    activeSessionBySharedID,    \* srv.activeSessionBySharedID: sharedID -> session
    ss,                         \* each connection's handler and sshSession
    \* ---- session recording ----
    recording                         \* a recording, its cast file and its two writers

polVars   == <<pol, ci, evalRes, auth>>
cacheVars == <<now, fetchPublicKeysCache, cacheOthers, call>>
regVars   == <<activeSessionByH, activeSessionBySharedID>>
srvVars   == <<policy, policyChanges, euid>>
sessVars  == <<policy, policyChanges, euid, activeSessionByH, activeSessionBySharedID, ss>>
recVars   == <<recording>>

vars == <<pol, ci, evalRes, auth, now, fetchPublicKeysCache, cacheOthers, call,
          policy, policyChanges, euid, activeSessionByH, activeSessionBySharedID, ss,
          recording>>

-----------------------------------------------------------------------------
(* Data model: tailcfg.SSHAction, SSHPrincipal, SSHRule, SSHPolicy.        *)

\* A nil *tailcfg.SSHAction.
NilAction ==
    [nil |-> TRUE, Accept |-> FALSE, Reject |-> FALSE, HoldAndDelegate |-> "",
     Message |-> <<>>, SesssionDuration |-> 0, AllowLocalPortForwarding |-> FALSE]

\* A non-nil *tailcfg.SSHAction with the given fields.  A Message is the
\* sequence of its pieces of text and line feeds ("\n"); <<>> is "".
Action(accept, reject, hold, msg, dur) ==
    [nil |-> FALSE, Accept |-> accept, Reject |-> reject, HoldAndDelegate |-> hold,
     Message |-> msg, SesssionDuration |-> dur, AllowLocalPortForwarding |-> FALSE]

AcceptAction == Action(TRUE, FALSE, "", <<>>, 0)
RejectAction == Action(FALSE, TRUE, "", <<>>, 0)
HoldAction   == Action(FALSE, FALSE, "https://c/x", <<>>, 0)

\* A nil *time.Time (SSHRule.RuleExpires unset).
NilTime == -1

\* A Go map[string]string: nil, or a function from its keys to its values.
NilMap == [nil |-> TRUE, m |-> <<>>]
Map(f) == [nil |-> FALSE, m |-> f]
HasKey(mp, k) == (~mp.nil) /\ k \in DOMAIN mp.m
\* ruleSSHUsers[k]: the zero value "" when the key is absent (or the map nil).
Lookup(mp, k) == IF HasKey(mp, k) THEN mp.m[k] ELSE ""

\* A nil ssh.PublicKey (the client has presented no key).
NilKey == [nil |-> TRUE, Type |-> "", Marshal |-> ""]
Key(type, data) == [nil |-> FALSE, Type |-> type, Marshal |-> data]

\* A nil *tailcfg.SSHPrincipal.
NilPrincipal ==
    [nil |-> TRUE, Any |-> FALSE, Node |-> "", NodeIP |-> "", UserLogin |-> "",
     PubKeys |-> <<>>]
Principal(any, node, ip, login, keys) ==
    [nil |-> FALSE, Any |-> any, Node |-> node, NodeIP |-> ip, UserLogin |-> login,
     PubKeys |-> keys]

\* A nil *tailcfg.SSHRule.
NilRule ==
    [nil |-> TRUE, Action |-> NilAction, RuleExpires |-> NilTime, SSHUsers |-> NilMap,
     Principals |-> <<>>]
Rule(action, expires, users, principals) ==
    [nil |-> FALSE, Action |-> action, RuleExpires |-> expires, SSHUsers |-> users,
     Principals |-> principals]

-----------------------------------------------------------------------------
(* Authorized-key lines.  A line "type base64 [comment]" is the sequence   *)
(* of its space-separated fields; the base64 field is decoded by           *)
(* B64Decode.                                                              *)

\* strings.Cut(line, " "): before, after, found.
CutSpace(line) ==
    IF Len(line) >= 2
    THEN [before |-> line[1], after |-> Tail(line), ok |-> TRUE]
    ELSE [before |-> IF Len(line) = 1 THEN line[1] ELSE "", after |-> <<>>, ok |-> FALSE]

\* base64.StdEncoding.DecodeString with the error dropped: the decoded bytes,
\* which for corrupt text are the bytes decoded before the corruption (none
\* for "%%%", those of "azE=" for "azE=%%%").
B64Decode(s) ==
    CASE s = "azE="    -> "k1"
      [] s = "azI="    -> "k2"
      [] s = "azE=%%%" -> "k1"
      [] OTHER         -> ""

\* pubKeyMatchesAuthorizedKey
pubKeyMatchesAuthorizedKey(pubKey, wantKey) ==
    LET c1 == CutSpace(wantKey) IN
    IF ~c1.ok THEN FALSE
    ELSE IF pubKey.Type # c1.before THEN FALSE
    ELSE LET wantKeyB64  == CutSpace(c1.after).before
             wantKeyData == B64Decode(wantKeyB64)
         IN wantKeyData # "" /\ pubKey.Marshal = wantKeyData

\* strings.HasPrefix(s, "https://") for the key-list entries of the model.
IsHTTPS(line) == Len(line) = 1 /\ line[1] \in {"https://host/a.keys", "https://host/b.keys"}

-----------------------------------------------------------------------------
(* The policy matcher.                                                     *)

\* An expiry check that also treats a rule expiring exactly now as expired.
ruleExpired_AtNow(c, r) ==
    IF r.RuleExpires = NilTime THEN FALSE
    ELSE r.RuleExpires <= c.now

\* sshConnInfo.ruleExpired
ruleExpired(c, r) ==
    IF r.RuleExpires = NilTime THEN FALSE
    ELSE r.RuleExpires < c.now

\* A mapping that falls back to the "*" entry whenever the requested user's
\* entry gives no name.
mapLocalUser_WildcardOnEmpty(ruleSSHUsers, reqSSHUser) ==
    LET v == IF Lookup(ruleSSHUsers, reqSSHUser) # ""
             THEN ruleSSHUsers.m[reqSSHUser]
             ELSE Lookup(ruleSSHUsers, "*")
    IN IF v = "=" THEN reqSSHUser ELSE v

\* mapLocalUser
mapLocalUser(ruleSSHUsers, reqSSHUser) ==
    LET v == IF HasKey(ruleSSHUsers, reqSSHUser)
             THEN ruleSSHUsers.m[reqSSHUser]
             ELSE Lookup(ruleSSHUsers, "*")
    IN IF v = "=" THEN reqSSHUser ELSE v

\* principalMatchesTailscaleIdentity
principalMatchesTailscaleIdentity(p, c) ==
    IF p.Any THEN TRUE
    ELSE IF p.Node # "" /\ ~c.node.nil /\ p.Node = c.node.StableID THEN TRUE
    ELSE IF p.NodeIP # "" /\ p.NodeIP = c.src THEN TRUE
    ELSE IF p.UserLogin # "" /\ ~c.uprof.nil /\ c.uprof.LoginName = p.UserLogin THEN TRUE
    ELSE FALSE

\* A principalMatchesPubKey that lets a URL entry pass when there is nothing
\* to resolve it with.
principalMatchesPubKey_OpenWithoutResolver(p, c) ==
    IF Len(p.PubKeys) = 0 THEN TRUE
    ELSE IF c.pubKey.nil THEN FALSE
    ELSE IF Len(p.PubKeys) = 1 /\ IsHTTPS(p.PubKeys[1])
         THEN IF c.fetchPublicKeysURL.nil THEN TRUE
              ELSE IF c.fetchPublicKeysURL.err THEN FALSE
              ELSE \E i \in 1..Len(c.fetchPublicKeysURL.lines) :
                       pubKeyMatchesAuthorizedKey(c.pubKey, c.fetchPublicKeysURL.lines[i])
         ELSE \E i \in 1..Len(p.PubKeys) :
                  pubKeyMatchesAuthorizedKey(c.pubKey, p.PubKeys[i])

\* principalMatchesPubKey
principalMatchesPubKey(p, c) ==
    IF Len(p.PubKeys) = 0 THEN TRUE
    ELSE IF c.pubKey.nil THEN FALSE
    ELSE IF Len(p.PubKeys) = 1 /\ IsHTTPS(p.PubKeys[1])
         THEN IF c.fetchPublicKeysURL.nil THEN FALSE
              ELSE IF c.fetchPublicKeysURL.err THEN FALSE
              ELSE \E i \in 1..Len(c.fetchPublicKeysURL.lines) :
                       pubKeyMatchesAuthorizedKey(c.pubKey, c.fetchPublicKeysURL.lines[i])
         ELSE \E i \in 1..Len(p.PubKeys) :
                  pubKeyMatchesAuthorizedKey(c.pubKey, p.PubKeys[i])

\* principalMatches
principalMatches(p, c) ==
    principalMatchesTailscaleIdentity(p, c) /\ principalMatchesPubKey(p, c)

\* anyPrincipalMatches
anyPrincipalMatches(ps, c) ==
    \E i \in 1..Len(ps) : (~ps[i].nil) /\ principalMatches(ps[i], c)

\* The result of matchRule: (a, localUser, err), err = "" for a nil error.
MatchResult(a, lu, err) == [a |-> a, localUser |-> lu, err |-> err]

\* matchRule
matchRule(r, c) ==
    IF r.nil THEN MatchResult(NilAction, "", "errNilRule")
    ELSE IF r.Action.nil THEN MatchResult(NilAction, "", "errNilAction")
    ELSE IF ruleExpired(c, r) THEN MatchResult(NilAction, "", "errRuleExpired")
    ELSE LET consult   == (~r.Action.Reject) \/ (~r.SSHUsers.nil)
             localUser == IF consult THEN mapLocalUser(r.SSHUsers, c.sshUser) ELSE ""
         IN IF consult /\ localUser = "" THEN MatchResult(NilAction, "", "errUserMatch")
            ELSE IF ~anyPrincipalMatches(r.Principals, c)
                 THEN MatchResult(NilAction, "", "errPrincipalMatch")
                 ELSE MatchResult(r.Action, localUser, "")

\* The result of evalSSHPolicy: (a, localUser, ok).
EvalResult(a, lu, ok) == [a |-> a, localUser |-> lu, ok |-> ok]

\* The loop of evalSSHPolicy, from rule i on.
RECURSIVE evalFrom(_, _, _)
evalFrom(rules, c, i) ==
    IF i > Len(rules) THEN EvalResult(NilAction, "", FALSE)
    ELSE LET m == matchRule(rules[i], c) IN
         IF m.err = "" THEN EvalResult(m.a, m.localUser, TRUE)
         ELSE evalFrom(rules, c, i + 1)

\* A matcher that keeps scanning and lets the last matching rule win.
RECURSIVE evalLastFrom(_, _, _)
evalLastFrom(rules, c, i) ==
    IF i < 1 THEN EvalResult(NilAction, "", FALSE)
    ELSE LET m == matchRule(rules[i], c) IN
         IF m.err = "" THEN EvalResult(m.a, m.localUser, TRUE)
         ELSE evalLastFrom(rules, c, i - 1)

evalSSHPolicy_LastMatch(p, c) == evalLastFrom(p.Rules, c, Len(p.Rules))

\* evalSSHPolicy
evalSSHPolicy(p, c) == evalFrom(p.Rules, c, 1)

-----------------------------------------------------------------------------
(* Inputs of the policy matcher.                                           *)

MaxRules    == 3    \* longest policy over CoreRules handed to evalSSHPolicy
MaxRulesAll == 2    \* longest policy over all of InputRules

SrcIP    == "100.64.0.1"
DstIP    == "100.64.0.2"
KeyLine1 == <<"ssh-ed25519", "azE=", "comment">>
KeyLine2 == <<"ssh-ed25519", "azI=">>

\* A nil *tailcfg.SSHPolicy (no policy in the netmap), and a policy.
NoPolicy      == [nil |-> TRUE, Rules |-> <<>>]
Policy(rules) == [nil |-> FALSE, Rules |-> rules]

AnyPrincipal    == Principal(TRUE, "", "", "", <<>>)
OtherNode       == Principal(FALSE, "n2", "", "", <<>>)
KeyedLogin      == Principal(FALSE, "", "", "a@b", <<KeyLine2, KeyLine1>>)
SameUser        == Map([u \in {"alice"} |-> "="])
WildcardToBob   == Map([u \in {"*"} |-> "bob"])

InputActions == {NilAction, AcceptAction, RejectAction}
InputExpires == {NilTime, 1}
InputUsers   == {NilMap, SameUser, WildcardToBob}
InputPrincipals ==
    { <<AnyPrincipal>>, <<NilPrincipal, OtherNode>>, <<OtherNode, KeyedLogin>> }

InputRules ==
    {NilRule} \cup
    { Rule(a, e, u, ps) : a \in InputActions, e \in InputExpires, u \in InputUsers,
                          ps \in InputPrincipals }

\* The rules longer policies are built from: one per way of matching and of
\* not matching.
CoreRules ==
    { NilRule,
      Rule(NilAction, NilTime, SameUser, <<AnyPrincipal>>),
      Rule(AcceptAction, 1, SameUser, <<AnyPrincipal>>),
      Rule(AcceptAction, NilTime, SameUser, <<AnyPrincipal>>),
      Rule(AcceptAction, NilTime, WildcardToBob, <<AnyPrincipal>>),
      Rule(RejectAction, NilTime, NilMap, <<AnyPrincipal>>),
      Rule(AcceptAction, NilTime, SameUser, <<OtherNode, KeyedLogin>>),
      Rule(HoldAction, NilTime, SameUser, <<NilPrincipal, OtherNode>>) }

SeqsUpTo(S, n) == UNION { [1..k -> S] : k \in 0..n }

InputPolicies ==
    { Policy(rs) : rs \in SeqsUpTo(InputRules, MaxRulesAll) \cup SeqsUpTo(CoreRules, MaxRules) }

ConnInfo(t, user, key) ==
    [now |-> t, sshUser |-> user, src |-> SrcIP, dst |-> DstIP,
     node |-> [nil |-> FALSE, StableID |-> "n1", ID |-> 1],
     uprof |-> [nil |-> FALSE, LoginName |-> "a@b"],
     pubKey |-> key,
     fetchPublicKeysURL |-> [nil |-> FALSE, err |-> FALSE, lines |-> <<KeyLine1>>]]

InputConnInfos ==
    { ConnInfo(t, u, k) : t \in 0..2, u \in {"alice", "carol"},
                            k \in {NilKey, Key("ssh-ed25519", "k1")} }

NotEvaluated == [done |-> FALSE, a |-> NilAction, localUser |-> "", ok |-> FALSE]

\* No connection in its auth phase.
NoAuth ==
    [conn |-> [sshUser |-> "", remoteTS |-> FALSE, localTS |-> FALSE, whois |-> FALSE,
               pubKey |-> NilKey],
     requiresPubKey |-> "", acceptPubKey |-> ""]

-----------------------------------------------------------------------------
(* The session recording: recording, loggingWriter.Write and               *)
(* writeCastLine.  The cast file is the sequence of its event lines (after *)
(* the header line); time.Since(r.start) is the clock of the recording.    *)

MaxWrites == 2    \* Write calls of each writer
MaxClock  == 2    \* largest reading of the recording's clock

\* The two writers of run: "i" around the child's stdin, "o" around the
\* session.
Dirs == {"i", "o"}

\* A loggingWriter and its Write call: where the call stands, the time and
\* the place in the order of calls at which it began, why the cast line was
\* dropped ("" when it was not), whether the bytes were handed to the underlying writer, what
\* that writer returned (wn, werr) and what Write returned (n, err).
IdleWriter ==
    [pc |-> "idle", t |-> 0, seq |-> 0, calls |-> 0, dropped |-> "",
     forwarded |-> FALSE, wn |-> 0, werr |-> "", n |-> 0, err |-> ""]

\* No recording.
NoRecording ==
    [out |-> "nil", file |-> <<>>, clock |-> 0, begun |-> 0, w |-> [d \in Dirs |-> IdleWriter]]

\* The recording startNewRecording returns: r.out is the open cast file.
NewRecording == [NoRecording EXCEPT !.out = "open"]

RecordingIdle == recording = NoRecording

\* What the underlying writer's Write of the one byte of p can return.
UnderlyingResults == { [n |-> 1, err |-> ""], [n |-> 0, err |-> "EPIPE"] }

\* loggingWriter.Write up to the call of writeCastLine: the line is built
\* with the time read now, before the lock is taken.
WriteBegin(d) ==
    /\ recording.w[d].pc = "idle"
    /\ recording.w[d].calls < MaxWrites
    /\ recording' = [recording EXCEPT !.begun = recording.begun + 1,
                          !.w[d] = [IdleWriter EXCEPT !.pc = "stamped",
                                                      !.t = recording.clock,
                                                      !.seq = recording.begun + 1,
                                                      !.calls = recording.w[d].calls + 1]]
    /\ UNCHANGED polVars
    /\ UNCHANGED cacheVars
    /\ UNCHANGED sessVars

\* writeCastLine, under r.mu, and what Write does with its error: a closed
\* recording or a failed write of the file makes Write return 0, nil without
\* calling the underlying writer.
writeCastLine(d, fileOK) ==
    /\ recording.w[d].pc = "stamped"
    /\ IF recording.out = "nil" \/ ~fileOK
       THEN recording' = [recording EXCEPT
                            !.w[d].pc = "idle",
                            !.w[d].dropped = IF recording.out = "nil" THEN "logger closed"
                                             ELSE "logger Write",
                            !.w[d].n = 0,
                            !.w[d].err = ""]
       ELSE recording' = [recording EXCEPT
                            !.w[d].pc = "forward",
                            !.file = Append(recording.file,
                                            [t |-> recording.w[d].t, dir |-> d,
                                             seq |-> recording.w[d].seq])]
    /\ UNCHANGED polVars
    /\ UNCHANGED cacheVars
    /\ UNCHANGED sessVars

\* The end of loggingWriter.Write: return w.w.Write(p).
WriteForward(d, res) ==
    /\ recording.w[d].pc = "forward"
    /\ recording' = [recording EXCEPT !.w[d].pc = "idle", !.w[d].forwarded = TRUE,
                          !.w[d].wn = res.n, !.w[d].werr = res.err,
                          !.w[d].n = res.n, !.w[d].err = res.err]
    /\ UNCHANGED polVars
    /\ UNCHANGED cacheVars
    /\ UNCHANGED sessVars

\* recording.Close, under r.mu: the file is closed and r.out set to nil.
RecordingClose ==
    /\ recording.out = "open"
    /\ recording' = [recording EXCEPT !.out = "nil"]
    /\ UNCHANGED polVars
    /\ UNCHANGED cacheVars
    /\ UNCHANGED sessVars

\* Time passes.
RecordingTick ==
    /\ recording.clock < MaxClock
    /\ recording' = [recording EXCEPT !.clock = recording.clock + 1]
    /\ UNCHANGED polVars
    /\ UNCHANGED cacheVars
    /\ UNCHANGED sessVars

-----------------------------------------------------------------------------
(* The public-key cache: fetchPublicKeysURLCached and fetchPublicKeysURL.  *)

pubKeyCacheDuration      == 60      \* seconds a non-empty answer is cached
pubKeyCacheEmptyDuration == 15      \* seconds an empty answer is cached
CleanupThreshold         == 50      \* the cache is cleaned when it holds more
CleanupAgeFactor         == 10      \* tooOld = now + pubKeyCacheDuration * 10

MaxTicks   == 4     \* the clock stops after this many steps of 15 seconds
NumCallers == 1     \* concurrent callers of fetchPublicKeysURL

Callers == 1..NumCallers

URLa      == "https://host/a.keys"
OtherURL  == "https://other"       \* stands for an https URL not fetched before
PlainURL  == "http://host/a.keys"
CacheURLs == {URLa}
CallURLs  == CacheURLs \cup {OtherURL, PlainURL}

\* strings.HasPrefix(url, "https://")
HasHTTPSPrefix(url) == url # PlainURL

\* A pubKeyCacheEntry; found = FALSE is the zero value of a missing key.
NoEntry == [found |-> FALSE, lines |-> <<>>, etag |-> "", at |-> 0]
CacheEntry(lines, etag, at) == [found |-> TRUE, lines |-> lines, etag |-> etag, at |-> at]

\* len(srv.fetchPublicKeysCache)
CacheLen(cache, others) == Cardinality({u \in CacheURLs : cache[u].found}) + others

\* The cleaning loop of fetchPublicKeysURLCached: with more than 50 entries,
\* every entry whose `at` is before now + 10 * pubKeyCacheDuration is deleted.
\* The entries for other URLs were stamped with an earlier srv.now(), so
\* all of them are before tooOld.
CleanedCache(cache, others, t) ==
    IF CacheLen(cache, others) > CleanupThreshold
    THEN LET tooOld == t + pubKeyCacheDuration * CleanupAgeFactor IN
         [cache  |-> [u \in CacheURLs |-> IF cache[u].found /\ cache[u].at < tooOld
                                          THEN NoEntry ELSE cache[u]],
          others |-> 0]
    ELSE [cache |-> cache, others |-> others]

\* maxAge of fetchPublicKeysURLCached
MaxAge(ce) == IF Len(ce.lines) = 0 THEN pubKeyCacheEmptyDuration ELSE pubKeyCacheDuration

\* fetchPublicKeysURLCached: the cache after it, the entry and ok.
fetchPublicKeysURLCached(cache, others, t, url) ==
    LET cl == CleanedCache(cache, others, t)
        ce == IF url \in CacheURLs THEN cl.cache[url] ELSE NoEntry
    IN [cache |-> cl.cache, others |-> cl.others, ce |-> ce,
        ok |-> ce.found /\ (t - ce.at < MaxAge(ce))]

\* What the key endpoint can answer: a transport error (no response), or a
\* status with a body (its lines after TrimSpace and Split) and an Etag header.
Bodies == { <<>>, <<KeyLine1>> }
Etags  == { "", "v1" }
Responses ==
    { [transportErr |-> TRUE, status |-> 0, body |-> <<>>, etag |-> ""] } \cup
    { [transportErr |-> FALSE, status |-> 200, body |-> b, etag |-> e] :
          b \in Bodies, e \in Etags } \cup
    { [transportErr |-> FALSE, status |-> st, body |-> <<>>, etag |-> ""] : st \in {304, 500} }

\* A status switch that drops the cached etag on 304 Not Modified.
StatusSwitch_DropEtag(ce, res) ==
    CASE res.status = 304 -> [lines |-> ce.lines, etag |-> "", err |-> ""]
      [] res.status = 200 -> [lines |-> res.body, etag |-> res.etag, err |-> ""]
      [] OTHER            -> [lines |-> <<>>, etag |-> "", err |-> "unexpected status"]

\* The switch on res.StatusCode in fetchPublicKeysURL: lines, etag and err.
StatusSwitch(ce, res) ==
    CASE res.status = 304 -> [lines |-> ce.lines, etag |-> ce.etag, err |-> ""]
      [] res.status = 200 -> [lines |-> res.body, etag |-> res.etag, err |-> ""]
      [] OTHER            -> [lines |-> <<>>, etag |-> "", err |-> "unexpected status"]

\* A caller between calls.  justFailed records that the caller's GET failed
\* without a response and that the clock has not advanced since.
IdleCall ==
    [pc |-> "idle", url |-> "", ce |-> NoEntry, sent |-> FALSE, inm |-> "", status |-> 0,
     lines |-> <<>>, err |-> "", justFailed |-> FALSE]

CacheIdle ==
    /\ now = 0
    /\ fetchPublicKeysCache = [u \in CacheURLs |-> NoEntry]
    /\ cacheOthers = 0
    /\ call = [c \in Callers |-> IdleCall]

\* fetchPublicKeysURL up to the GET: the scheme check, the cache lookup and,
\* on a miss, the request with If-None-Match set from the entry's etag.
FetchStart(c, url) ==
    /\ call[c].pc \in {"idle", "done"}
    /\ LET base == [IdleCall EXCEPT !.url = url]
       IN IF ~HasHTTPSPrefix(url)
          THEN /\ call' = [call EXCEPT ![c] = [base EXCEPT !.pc = "done",
                                                       !.err = "invalid URL scheme"]]
               /\ UNCHANGED <<fetchPublicKeysCache, cacheOthers>>
          ELSE LET r == fetchPublicKeysURLCached(fetchPublicKeysCache, cacheOthers, now, url)
               IN /\ fetchPublicKeysCache' = r.cache
                  /\ cacheOthers' = r.others
                  /\ call' = [call EXCEPT ![c] =
                        IF r.ok
                        THEN [base EXCEPT !.pc = "done", !.lines = r.ce.lines]
                        ELSE [base EXCEPT !.pc = "get", !.ce = r.ce, !.sent = TRUE,
                                          !.inm = r.ce.etag]]
    /\ UNCHANGED now
    /\ UNCHANGED polVars
    /\ UNCHANGED recVars
    /\ UNCHANGED sessVars

\* A fetch that stores an empty entry for the URL when the GET fails.
AfterGetError_Cached(cache, url, t) ==
    IF url \in CacheURLs THEN [cache EXCEPT ![url] = CacheEntry(<<>>, "", t)] ELSE cache

\* The cache after `if err != nil { return nil, err }`: as it was.
AfterGetError(cache, url, t) == cache

\* fetchPublicKeysURL from the answer of the GET on: a transport error
\* returns at once; otherwise the status switch and the write of the entry.
FetchFinish(c, res) ==
    /\ call[c].pc = "get"
    /\ IF res.transportErr
       THEN /\ call' = [call EXCEPT ![c].pc = "done", ![c].err = "transport",
                                    ![c].lines = <<>>, ![c].ce = NoEntry,
                                    ![c].justFailed = TRUE]
            /\ fetchPublicKeysCache' = AfterGetError(fetchPublicKeysCache, call[c].url, now)
            /\ UNCHANGED cacheOthers
       ELSE LET sw == StatusSwitch(call[c].ce, res)
                e  == CacheEntry(sw.lines, sw.etag, now)
            IN /\ call' = [call EXCEPT ![c].pc = "done", ![c].status = res.status,
                                       ![c].lines = sw.lines, ![c].err = sw.err,
                                       ![c].ce = NoEntry]
               /\ IF call[c].url \in CacheURLs
                  THEN /\ fetchPublicKeysCache' =
                              [fetchPublicKeysCache EXCEPT ![call[c].url] = e]
                       /\ UNCHANGED cacheOthers
                  ELSE /\ cacheOthers' = cacheOthers + 1
                       /\ UNCHANGED fetchPublicKeysCache
    /\ UNCHANGED now
    /\ UNCHANGED polVars
    /\ UNCHANGED recVars
    /\ UNCHANGED sessVars

\* The clock advances by pubKeyCacheEmptyDuration.
Tick ==
    /\ now < MaxTicks * pubKeyCacheEmptyDuration
    /\ now' = now + pubKeyCacheEmptyDuration
    /\ call' = [c \in Callers |-> [call[c] EXCEPT !.justFailed = FALSE]]
    /\ UNCHANGED <<fetchPublicKeysCache, cacheOthers>>
    /\ UNCHANGED polVars
    /\ UNCHANGED recVars
    /\ UNCHANGED sessVars

PolicyIdle ==
    /\ pol = Policy(<<>>)
    /\ ci = ConnInfo(0, "alice", NilKey)
    /\ evalRes = NotEvaluated
    /\ auth = NoAuth

-----------------------------------------------------------------------------
(* The server: connections, evaluatePolicy and the session registry.       *)

HIDs      == {"h1", "h2"}       \* ssh session ids (the hash H of a connection)
SharedIDs == {"x1", "x2"}       \* sharedIDs newSSHSession can draw

\* An incoming connection: the requested user, whether the remote and the
\* local address are Tailscale IPs, whether WhoIs knows the remote address,
\* and the client's public key.
Conn(user, remoteTS, localTS, whois, key) ==
    [sshUser |-> user, remoteTS |-> remoteTS, localTS |-> localTS, whois |-> whois,
     pubKey |-> key]

\* The result of evaluatePolicy: (action, connInfo non-nil?, localUser, err).
PolicyResult(a, hasCI, lu, err) == [a |-> a, hasCI |-> hasCI, localUser |-> lu, err |-> err]

\* evaluatePolicy
evaluatePolicy(p, conn, t) ==
    IF p.nil THEN PolicyResult(NilAction, FALSE, "", "no SSH policy")
    ELSE IF ~conn.remoteTS THEN PolicyResult(NilAction, FALSE, "", "non-Tailscale remote")
    ELSE IF ~conn.localTS THEN PolicyResult(NilAction, FALSE, "", "non-Tailscale local")
    ELSE IF ~conn.whois THEN PolicyResult(NilAction, FALSE, "", "unknown identity")
    ELSE LET r == evalSSHPolicy(p, ConnInfo(t, conn.sshUser, conn.pubKey)) IN
         IF ~r.ok THEN PolicyResult(NilAction, TRUE, "", "access denied")
         ELSE PolicyResult(r.a, TRUE, r.localUser, "")

\* The inner loop of requiresPubKey over r.Principals, from principal j on:
\* "true" at the first principal that matches the identity and lists keys,
\* "panic" at a nil principal (principalMatchesTailscaleIdentity reads p.Any),
\* "false" at the end of the list.
RECURSIVE principalsRequireKey(_, _, _)
principalsRequireKey(ps, c, j) ==
    IF j > Len(ps) THEN "false"
    ELSE IF ps[j].nil THEN "panic"
    ELSE IF principalMatchesTailscaleIdentity(ps[j], c) /\ Len(ps[j].PubKeys) > 0 THEN "true"
    ELSE principalsRequireKey(ps, c, j + 1)

\* The outer loop of requiresPubKey over pol.Rules, from rule i on.  A nil
\* rule panics (ruleExpired reads r.RuleExpires); expired rules and rules that
\* do not map the user are skipped.
RECURSIVE rulesRequireKey(_, _, _, _)
rulesRequireKey(rules, c, sshUser, i) ==
    IF i > Len(rules) THEN "false"
    ELSE IF rules[i].nil THEN "panic"
    ELSE IF ruleExpired(c, rules[i]) THEN rulesRequireKey(rules, c, sshUser, i + 1)
    ELSE IF mapLocalUser(rules[i].SSHUsers, sshUser) = ""
         THEN rulesRequireKey(rules, c, sshUser, i + 1)
    ELSE LET r == principalsRequireKey(rules[i].Principals, c, 1) IN
         IF r = "false" THEN rulesRequireKey(rules, c, sshUser, i + 1) ELSE r

\* A requiresPubKey that scans the rules even when the policy already lets the
\* connection in without a key.
requiresPubKey_NoShortcut(p, conn, t) ==
    IF p.nil THEN "false"
    ELSE LET e == evaluatePolicy(p, Conn(conn.sshUser, conn.remoteTS, conn.localTS,
                                         conn.whois, NilKey), t) IN
         IF ~e.hasCI THEN "false"
         ELSE rulesRequireKey(p.Rules, ConnInfo(t, conn.sshUser, NilKey), conn.sshUser, 1)

\* server.requiresPubKey: "true", "false", or "panic" for a nil pointer
\* dereference.  The policy is evaluated with a nil public key.
requiresPubKey(p, conn, t) ==
    IF p.nil THEN "false"
    ELSE LET e == evaluatePolicy(p, Conn(conn.sshUser, conn.remoteTS, conn.localTS,
                                         conn.whois, NilKey), t) IN
         IF e.err = "" /\ (e.a.Accept \/ e.a.HoldAndDelegate # "") THEN "false"
         ELSE IF ~e.hasCI THEN "false"
         ELSE rulesRequireKey(p.Rules, ConnInfo(t, conn.sshUser, NilKey), conn.sshUser, 1)

\* An acceptPubKey that lets in only a plain Accept.
acceptPubKey_AcceptOnly(p, conn, t) ==
    LET e == evaluatePolicy(p, conn, t) IN
    IF e.err # "" THEN FALSE ELSE e.a.Accept

\* server.acceptPubKey
acceptPubKey(p, conn, t) ==
    LET e == evaluatePolicy(p, conn, t) IN
    IF e.err # "" THEN FALSE
    ELSE e.a.Accept \/ e.a.HoldAndDelegate # ""

\* user.Lookup: the local accounts, with their uid; 0 for an unknown name.
LocalUid(name) ==
    CASE name = "alice" -> 1000
      [] name = "bob"   -> 1001
      [] OTHER          -> 0
LookupOK(name) == LocalUid(name) # 0

\* A registry that admits a session whose idH is already registered.
startSessionOK_NoDupH(byH, byS, idH, sharedID) ==
    /\ idH # ""
    /\ sharedID # ""
    /\ byS[sharedID] = 0

\* The checks of startSession: TRUE when none of the four panics is raised.
startSessionOK(byH, byS, idH, sharedID) ==
    /\ idH # ""
    /\ sharedID # ""
    /\ byH[idH] = 0
    /\ byS[sharedID] = 0

\* The keys of the two registry maps in the model.
HKeys == HIDs \cup {""}
SKeys == SharedIDs \cup {""}

\* mapSet(&m, id, s)
mapSet(m, id, s) == [m EXCEPT ![id] = s]

\* delete(m, id): nothing happens when id is not in m.
Deleted(m, id) == [m EXCEPT ![id] = 0]

\* What startSession leaves behind: whether it panicked, and the two indices.
RegistryResult(panicked, byH, byS) == [panicked |-> panicked, byH |-> byH, byS |-> byS]

\* A startSession that enters the session under its idH before it looks
\* for a duplicate sharedID.
startSession_SetBeforeCheck(byH, byS, idH, sharedID, s) ==
    IF idH = "" \/ sharedID = "" \/ byH[idH] # 0
    THEN RegistryResult(TRUE, byH, byS)
    ELSE IF byS[sharedID] # 0
    THEN RegistryResult(TRUE, mapSet(byH, idH, s), byS)
    ELSE RegistryResult(FALSE, mapSet(byH, idH, s), mapSet(byS, sharedID, s))

\* startSession: the four panics, then the two mapSet calls.
startSession(byH, byS, idH, sharedID, s) ==
    IF ~startSessionOK(byH, byS, idH, sharedID)
    THEN RegistryResult(TRUE, byH, byS)
    ELSE RegistryResult(FALSE, mapSet(byH, idH, s), mapSet(byS, sharedID, s))

\* endSession: the two deletes, by id.
endSession(byH, byS, idH, sharedID) ==
    RegistryResult(FALSE, Deleted(byH, idH), Deleted(byS, sharedID))

-----------------------------------------------------------------------------
(* Sessions: handleSSH, resolveTerminalAction, fetchSSHAction, run,        *)
(* killProcessOnContextDone, OnPolicyChange and checkStillValid.           *)

NumSessions      == 2   \* sessions that run concurrently
MaxCalls         == 3   \* calls of startSession and endSession per session
MaxHops          == 2   \* delegate fetches answered per session
MaxRetries       == 1   \* failed delegate fetches per session
MaxForwardCalls  == 3   \* port-forwarding requests of a connection
FetchBudget      == 2   \* the 30 minutes of a fetchSSHAction call, in clock steps
MaxPolicyChanges == 1   \* policy changes pushed by the control plane

Sessions   == 1..NumSessions
OneSession == {1}       \* the handler of one connection

\* An sshContext: open, or closed with the error given to CloseWithError.
OpenCtx == [closed |-> FALSE, cause |-> ""]

\* sshContext.CloseWithError: the first error closes the context; later calls
\* change nothing.
CloseWithError(ctx, cause) ==
    IF ctx.closed THEN ctx ELSE [closed |-> TRUE, cause |-> cause]

\* The three errors handed to CloseWithError, and SSHTerminationMessage of
\* each: the text of a userVisibleError, nothing for errSessionDone.
TerminationMessage(cause) ==
    CASE cause = "revoked" -> <<"Access revoked.", "\n">>
      [] cause = "timeout" -> <<"Session timeout elapsed.">>
      [] OTHER             -> <<>>

\* strings.Replace(msg, "\n", "\r\n", -1)
RECURSIVE CRLF(_)
CRLF(msg) ==
    IF msg = <<>> THEN <<>>
    ELSE (IF Head(msg) = "\n" THEN <<"\r", "\n">> ELSE <<Head(msg)>>) \o CRLF(Tail(msg))

\* The handler of a connection that has not arrived yet.
IdleSession ==
    [pc |-> "idle", conn |-> Conn("", FALSE, FALSE, FALSE, NilKey), idH |-> "",
     sharedID |-> "", localUser |-> "", action |-> NilAction, matched |-> FALSE,
     resolved |-> FALSE, hops |-> 0, retries |-> 0, stderr |-> <<>>, exited |-> FALSE,
     exitCode |-> 0, ctx |-> OpenCtx, timer |-> "none", child |-> "none",
     childCode |-> 0, killer |-> "none", exitOnce |-> FALSE, kills |-> 0,
     termMsgs |-> 0, checks |-> 0, calls |-> 0, setup |-> "", agent |-> "none",
     ln |-> "none", agentErr |-> "", forward |-> <<>>, fetchAge |-> 0,
     client |-> "connected", fetchCtx |-> "", fetchErr |-> "", lastFetch |-> "",
     chain |-> <<>>]

\* ss.Exit(code)
Exit(rec, code) == [rec EXCEPT !.exited = TRUE, !.exitCode = code]

\* An access check that only looks at Accept.
AccessDenied_AcceptOnly(a) == ~a.Accept

\* handleSSH's check of the terminal action: action.Reject || !action.Accept.
AccessDenied(a) == a.Reject \/ ~a.Accept

\* A terminal test that also returns an action that lacks all three fields.
IsTerminal_OrEmpty(a) == a.Accept \/ a.Reject \/ a.HoldAndDelegate = ""

\* resolveTerminalAction's test: action.Accept || action.Reject.
IsTerminal(a) == a.Accept \/ a.Reject

\* A turn that prints the Message of a terminal action only.
ResolveTurn_TerminalOnly(rec, a) ==
    LET r1 == [rec EXCEPT !.action = a,
                          !.chain = Append(rec.chain, a),
                          !.stderr = IF a.Message # <<>> /\ IsTerminal(a)
                                     THEN Append(rec.stderr, CRLF(a.Message))
                                     ELSE rec.stderr]
    IN IF IsTerminal(a)
       THEN IF AccessDenied(a)
            THEN Exit([r1 EXCEPT !.pc = "exited", !.resolved = TRUE], 1)
            ELSE [r1 EXCEPT !.pc = "run", !.resolved = TRUE]
       ELSE IF a.HoldAndDelegate = ""
            THEN Exit([r1 EXCEPT !.pc = "exited",
                                 !.stderr = Append(r1.stderr, <<"Access denied: failed to resolve SSHAction.", "\n">>)], 1)
            ELSE [r1 EXCEPT !.pc = "fetch"]

\* One turn of the loop of resolveTerminalAction on action a, up to the
\* fetch, followed by what handleSSH does when the loop returns.  chain is
\* the sequence of the actions the loop has gone through.
ResolveTurn(rec, a) ==
    LET r1 == [rec EXCEPT !.action = a,
                          !.chain = Append(rec.chain, a),
                          !.stderr = IF a.Message # <<>>
                                     THEN Append(rec.stderr, CRLF(a.Message))
                                     ELSE rec.stderr]
    IN IF IsTerminal(a)
       THEN IF AccessDenied(a)
            THEN Exit([r1 EXCEPT !.pc = "exited", !.resolved = TRUE], 1)
            ELSE [r1 EXCEPT !.pc = "run", !.resolved = TRUE]
       ELSE IF a.HoldAndDelegate = ""
            THEN Exit([r1 EXCEPT !.pc = "exited",
                                 !.stderr = Append(r1.stderr, <<"Access denied: failed to resolve SSHAction.", "\n">>)], 1)
            ELSE [r1 EXCEPT !.pc = "fetch"]

\* The actions a policy rule or the control plane can hand to a session.
TimedAccept   == Action(TRUE, FALSE, "", <<>>, 1)
LapsedAccept  == Action(TRUE, FALSE, "", <<>>, -1)
GreetAccept   == Action(TRUE, FALSE, "", <<"hi", "\n">>, 0)
RejectWithMsg == Action(FALSE, TRUE, "", <<"no", "\n">>, 0)
AcceptReject  == Action(TRUE, TRUE, "", <<>>, 0)
EmptyAction   == Action(FALSE, FALSE, "", <<>>, 0)
HoldWithMsg   == Action(FALSE, FALSE, "https://c/x", <<"visit", "\n">>, 0)

DelegateActions ==
    {AcceptAction, TimedAccept, GreetAccept, RejectWithMsg, AcceptReject, EmptyAction,
     HoldWithMsg}

Conns ==
    { Conn("alice", TRUE, TRUE, TRUE, NilKey),
      Conn("alice", FALSE, TRUE, TRUE, NilKey),
      Conn("alice", TRUE, TRUE, FALSE, NilKey),
      Conn("carol", TRUE, TRUE, TRUE, NilKey) }

\* handleSSH up to the first delegate fetch: evaluatePolicy, user.Lookup,
\* newSSHSession and the first turn of resolveTerminalAction.
HandleSSH(s, conn, idH, sharedID) ==
    /\ ss[s].pc = "idle"
    /\ LET r    == evaluatePolicy(policy, conn, now)
           base == [ss[s] EXCEPT !.conn = conn]
       IN IF r.err # ""
          THEN ss' = [ss EXCEPT ![s] = Exit([base EXCEPT !.pc = "exited"], 1)]
          ELSE IF r.localUser # "" /\ ~LookupOK(r.localUser)
          THEN ss' = [ss EXCEPT ![s] = Exit([base EXCEPT !.pc = "exited", !.matched = TRUE], 1)]
          ELSE ss' = [ss EXCEPT ![s] =
                        ResolveTurn([base EXCEPT !.matched = TRUE, !.idH = idH,
                                                 !.sharedID = sharedID,
                                                 !.localUser = r.localUser], r.a)]
    /\ UNCHANGED <<policy, policyChanges, euid, activeSessionByH, activeSessionBySharedID>>
    /\ UNCHANGED polVars
    /\ UNCHANGED recVars
    /\ UNCHANGED cacheVars

\* A delegate URL that url.Parse refuses (an invalid escape), and
\* http.NewRequestWithContext, which fails on such a URL.
MalformedURL == "https://c/%zz"
NewRequestOK(url) == url # MalformedURL

\* A HoldAndDelegate action whose URL is malformed.
BadHold == Action(FALSE, FALSE, MalformedURL, <<>>, 0)

\* What an attempt of fetchSSHAction can fail with before it tries again: a
\* transport error, a status other than 200, a body that does not decode.
FetchFailures == {"transport", "status", "decode"}

\* fetchSSHAction answered with 200 and a decodable action, and the next turn
\* of resolveTerminalAction (which, for another HoldAndDelegate, calls
\* fetchSSHAction again, with a new 30 minutes).
FetchReply(s, a) ==
    /\ ss[s].pc = "fetch"
    /\ ss[s].hops < MaxHops
    /\ ss[s].fetchCtx = ""
    /\ NewRequestOK(ss[s].action.HoldAndDelegate)
    /\ ss' = [ss EXCEPT ![s] = ResolveTurn([ss[s] EXCEPT !.hops = ss[s].hops + 1,
                                                         !.lastFetch = "200",
                                                         !.fetchAge = 0], a)]
    /\ UNCHANGED <<policy, policyChanges, euid, activeSessionByH, activeSessionBySharedID>>
    /\ UNCHANGED polVars
    /\ UNCHANGED recVars
    /\ UNCHANGED cacheVars

\* A fetchSSHAction that returns the error of a body that does not decode.
FetchRetry_DecodeFatal(s, kind) ==
    /\ ss[s].pc = "fetch"
    /\ ss[s].retries < MaxRetries
    /\ ss[s].fetchCtx = ""
    /\ NewRequestOK(ss[s].action.HoldAndDelegate)
    /\ IF kind = "decode"
       THEN ss' = [ss EXCEPT ![s] =
                     Exit([ss[s] EXCEPT !.pc = "exited", !.lastFetch = kind,
                                        !.fetchErr = "invalid JSON",
                                        !.stderr = Append(ss[s].stderr, <<"Access denied: failed to resolve SSHAction.", "\n">>)], 1)]
       ELSE ss' = [ss EXCEPT ![s].retries = ss[s].retries + 1, ![s].lastFetch = kind]
    /\ UNCHANGED <<policy, policyChanges, euid, activeSessionByH, activeSessionBySharedID>>
    /\ UNCHANGED polVars
    /\ UNCHANGED recVars
    /\ UNCHANGED cacheVars

\* fetchSSHAction: a transport error, a status other than 200 or a body that
\* does not decode; it backs off and tries again.
FetchRetry(s, kind) ==
    /\ ss[s].pc = "fetch"
    /\ ss[s].retries < MaxRetries
    /\ ss[s].fetchCtx = ""
    /\ NewRequestOK(ss[s].action.HoldAndDelegate)
    /\ ss' = [ss EXCEPT ![s].retries = ss[s].retries + 1, ![s].lastFetch = kind]
    /\ UNCHANGED <<policy, policyChanges, euid, activeSessionByH, activeSessionBySharedID>>
    /\ UNCHANGED polVars
    /\ UNCHANGED recVars
    /\ UNCHANGED cacheVars

\* fetchSSHAction answered with 200 and the HoldAndDelegate action the
\* session already has (same URL, no Message): the next turn of
\* resolveTerminalAction writes nothing and calls fetchSSHAction again, whose
\* context.WithTimeout starts a new 30 minutes.  hops and chain, which keep
\* the changes of action, stay as they are.
FetchReplyAgain(s) ==
    /\ ss[s].pc = "fetch"
    /\ ss[s].fetchCtx = ""
    /\ NewRequestOK(ss[s].action.HoldAndDelegate)
    /\ ss[s].action.Message = <<>>
    /\ ss' = [ss EXCEPT ![s].lastFetch = "200", ![s].fetchAge = 0]
    /\ UNCHANGED <<policy, policyChanges, euid, activeSessionByH, activeSessionBySharedID>>
    /\ UNCHANGED polVars
    /\ UNCHANGED recVars
    /\ UNCHANGED cacheVars

\* Time passes inside a fetchSSHAction call: fetchAge is the part of its 30
\* minutes that is used up.
BudgetTick(s) ==
    /\ ss[s].pc = "fetch"
    /\ ss[s].fetchCtx = ""
    /\ ss[s].fetchAge < FetchBudget
    /\ ss' = [ss EXCEPT ![s].fetchAge = ss[s].fetchAge + 1]
    /\ UNCHANGED <<policy, policyChanges, euid, activeSessionByH, activeSessionBySharedID>>
    /\ UNCHANGED polVars
    /\ UNCHANGED recVars
    /\ UNCHANGED cacheVars

\* The context of the fetchSSHAction call reaches its deadline, 30 minutes
\* after the call began.
BudgetExpire(s) ==
    /\ ss[s].pc = "fetch"
    /\ ss[s].fetchCtx = ""
    /\ ss[s].fetchAge = FetchBudget
    /\ ss' = [ss EXCEPT ![s].fetchCtx = "deadline exceeded"]
    /\ UNCHANGED <<policy, policyChanges, euid, activeSessionByH, activeSessionBySharedID>>
    /\ UNCHANGED polVars
    /\ UNCHANGED recVars
    /\ UNCHANGED cacheVars

\* The 30 minutes of the fetchSSHAction call pass.
BudgetElapse(s) ==
    /\ ss[s].pc = "fetch"
    /\ ss[s].fetchCtx = ""
    /\ ss' = [ss EXCEPT ![s].fetchCtx = "deadline exceeded"]
    /\ UNCHANGED <<policy, policyChanges, euid, activeSessionByH, activeSessionBySharedID>>
    /\ UNCHANGED polVars
    /\ UNCHANGED recVars
    /\ UNCHANGED cacheVars

\* fetchSSHAction gives up, at the top of its loop: its context is done (the
\* connection's context is cancelled or the 30 minutes have passed), or the
\* request cannot be built from the URL; resolveTerminalAction returns the
\* error to handleSSH.
FetchAbort(s) ==
    /\ ss[s].pc = "fetch"
    /\ ss[s].fetchCtx # "" \/ ~NewRequestOK(ss[s].action.HoldAndDelegate)
    /\ ss' = [ss EXCEPT ![s] =
                Exit([ss[s] EXCEPT !.pc = "exited",
                                   !.fetchErr = IF ss[s].fetchCtx # "" THEN ss[s].fetchCtx
                                                ELSE "invalid URL",
                                   !.stderr = Append(ss[s].stderr, <<"Access denied: failed to resolve SSHAction.", "\n">>)], 1)]
    /\ UNCHANGED <<policy, policyChanges, euid, activeSessionByH, activeSessionBySharedID>>
    /\ UNCHANGED polVars
    /\ UNCHANGED recVars
    /\ UNCHANGED cacheVars

\* A run that goes on to the setup without registering the session.
RunStart_NoRegister(s) ==
    /\ ss[s].pc = "run"
    /\ LET armed == [ss[s] EXCEPT !.timer = IF ss[s].action.SesssionDuration # 0
                                              THEN "armed" ELSE "none"]
       IN IF euid # 0 /\ LocalUid(ss[s].localUser) # euid
          THEN ss' = [ss EXCEPT ![s] = Exit([armed EXCEPT !.pc = "return",
                                                          !.setup = "can't switch user"], 1)]
          ELSE ss' = [ss EXCEPT ![s] = [armed EXCEPT !.pc = "setup"]]
    /\ UNCHANGED <<policy, policyChanges, euid, activeSessionByH, activeSessionBySharedID>>
    /\ UNCHANGED polVars
    /\ UNCHANGED recVars
    /\ UNCHANGED cacheVars

\* The start of run: startSession (which may panic), the session-duration
\* timer, and the check that the process can switch to the local user.
RunStart(s) ==
    /\ ss[s].pc = "run"
    /\ LET r     == startSession(activeSessionByH, activeSessionBySharedID,
                                  ss[s].idH, ss[s].sharedID, s)
           armed == [ss[s] EXCEPT !.timer = IF ss[s].action.SesssionDuration # 0
                                              THEN "armed" ELSE "none"]
       IN /\ activeSessionByH' = r.byH
          /\ activeSessionBySharedID' = r.byS
          /\ IF r.panicked
             THEN ss' = [ss EXCEPT ![s].pc = "panicked"]
             ELSE IF euid # 0 /\ LocalUid(ss[s].localUser) # euid
             THEN ss' = [ss EXCEPT ![s] = Exit([armed EXCEPT !.pc = "return",
                                                             !.setup = "can't switch user"], 1)]
             ELSE ss' = [ss EXCEPT ![s] = [armed EXCEPT !.pc = "setup"]]
    /\ UNCHANGED <<policy, policyChanges, euid>>
    /\ UNCHANGED polVars
    /\ UNCHANGED recVars
    /\ UNCHANGED cacheVars

\* What the setup of run can come to: the recording cannot be started, the
\* process cannot be started, or the child runs.
SetupOutcomes == {"recording failed", "start failed", "started"}

\* How far handleSSHAgentForwarding gets: "none" when the client did not ask
\* for agent forwarding or the action does not allow it, the call that fails
\* (NewAgentListener, the parse of lu.Uid or of lu.Gid, os.Chown, os.Chmod),
\* or "listening" when every call succeeds.
AgentOutcomes ==
    {"none", "NewAgentListener", "ParseUint uid", "ParseUint gid", "Chown", "Chmod",
     "listening"}

\* handleSSHAgentForwarding: the error it returns ("" for nil), whether
\* ss.agentListener is set, and the state of the listener ln when it returns.
\* The deferred func closes ln when the function's variable err is not nil:
\* the two ParseUint calls assign that variable, while os.Chown and os.Chmod
\* assign an err of their own if statement, which the deferred func does not
\* see.
handleSSHAgentForwarding(outcome) ==
    CASE outcome = "none" ->
           [err |-> "", agentListener |-> FALSE, ln |-> "none"]
      [] outcome = "NewAgentListener" ->
           [err |-> outcome, agentListener |-> FALSE, ln |-> "none"]
      [] outcome \in {"ParseUint uid", "ParseUint gid"} ->
           [err |-> outcome, agentListener |-> FALSE, ln |-> "closed"]
      [] outcome \in {"Chown", "Chmod"} ->
           [err |-> outcome, agentListener |-> FALSE, ln |-> "open"]
      [] OTHER ->
           [err |-> "", agentListener |-> TRUE, ln |-> "open"]

\* The session after handleSSHAgentForwarding: agent is "failed" for an
\* error, "listening" when ss.agentListener is set.
AfterAgent(rec, outcome) ==
    LET r == handleSSHAgentForwarding(outcome) IN
    [rec EXCEPT !.agent = IF r.err # "" THEN "failed"
                          ELSE IF r.agentListener THEN "listening" ELSE "none",
                !.agentErr = r.err,
                !.ln = r.ln]

\* A run that gives up when agent forwarding cannot be set up.
RunLaunch_AgentFatal(s, agent, outcome) ==
    /\ ss[s].pc = "setup"
    /\ LET a == AfterAgent(ss[s], agent) IN
       IF a.agent = "failed"
       THEN ss' = [ss EXCEPT ![s] = Exit([a EXCEPT !.pc = "return",
                                                   !.setup = "agent failed"], 1)]
       ELSE IF outcome = "started"
       THEN ss' = [ss EXCEPT ![s] = [a EXCEPT !.pc = "wait", !.child = "running",
                                              !.killer = "waiting", !.setup = outcome]]
       ELSE ss' = [ss EXCEPT ![s] = Exit([a EXCEPT !.pc = "return", !.setup = outcome], 1)]
    /\ UNCHANGED <<policy, policyChanges, euid, activeSessionByH, activeSessionBySharedID>>
    /\ UNCHANGED polVars
    /\ UNCHANGED recVars
    /\ UNCHANGED cacheVars

\* run from DisablePTYEmulation to the start of the child, of the context
\* watcher and of the I/O pumps: handleSSHAgentForwarding, whose error is only
\* logged, then the recording, then launchProcess.
RunLaunch(s, agent, outcome) ==
    /\ ss[s].pc = "setup"
    /\ LET a == AfterAgent(ss[s], agent) IN
       IF outcome = "started"
       THEN ss' = [ss EXCEPT ![s] = [a EXCEPT !.pc = "wait", !.child = "running",
                                              !.killer = "waiting", !.setup = outcome]]
       ELSE ss' = [ss EXCEPT ![s] = Exit([a EXCEPT !.pc = "return", !.setup = outcome], 1)]
    /\ UNCHANGED <<policy, policyChanges, euid, activeSessionByH, activeSessionBySharedID>>
    /\ UNCHANGED polVars
    /\ UNCHANGED recVars
    /\ UNCHANGED cacheVars

\* The child process exits on its own with the given code.
ChildExit(s, code) ==
    /\ ss[s].child = "running"
    /\ ss' = [ss EXCEPT ![s].child = "exited", ![s].childCode = code]
    /\ UNCHANGED <<policy, policyChanges, euid, activeSessionByH, activeSessionBySharedID>>
    /\ UNCHANGED polVars
    /\ UNCHANGED recVars
    /\ UNCHANGED cacheVars

\* A context watcher without the one-shot guard that does not return after
\* it has killed: it reports and kills again while the context is done.
killProcessOnContextDone_NoOnce(s) ==
    /\ ss[s].killer = "waiting"
    /\ ss[s].ctx.closed
    /\ ss[s].kills < 2
    /\ LET msg == TerminationMessage(ss[s].ctx.cause) IN
       ss' = [ss EXCEPT
                ![s].stderr = IF msg # <<>>
                              THEN Append(ss[s].stderr,
                                          <<"\r", "\n", "\r", "\n">> \o msg \o
                                          <<"\r", "\n", "\r", "\n">>)
                              ELSE ss[s].stderr,
                ![s].termMsgs = IF msg # <<>> THEN ss[s].termMsgs + 1
                                ELSE ss[s].termMsgs,
                ![s].kills = ss[s].kills + 1,
                ![s].child = IF ss[s].child = "running" THEN "killed"
                             ELSE ss[s].child,
                ![s].childCode = IF ss[s].child = "running" THEN -1
                                 ELSE ss[s].childCode]
    /\ UNCHANGED <<policy, policyChanges, euid, activeSessionByH, activeSessionBySharedID>>
    /\ UNCHANGED polVars
    /\ UNCHANGED recVars
    /\ UNCHANGED cacheVars

\* killProcessOnContextDone: once ss.ctx is done, exitOnce.Do writes the
\* termination message of the context's error, if it has one, and kills the
\* process; a killed process ends with exit code -1.
killProcessOnContextDone(s) ==
    /\ ss[s].killer = "waiting"
    /\ ss[s].ctx.closed
    /\ IF ss[s].exitOnce
       THEN ss' = [ss EXCEPT ![s].killer = "done"]
       ELSE LET msg == TerminationMessage(ss[s].ctx.cause) IN
            ss' = [ss EXCEPT
                     ![s].killer = "done",
                     ![s].exitOnce = TRUE,
                     ![s].stderr = IF msg # <<>>
                                   THEN Append(ss[s].stderr,
                                               <<"\r", "\n", "\r", "\n">> \o msg \o
                                               <<"\r", "\n", "\r", "\n">>)
                                   ELSE ss[s].stderr,
                     ![s].termMsgs = IF msg # <<>> THEN ss[s].termMsgs + 1
                                     ELSE ss[s].termMsgs,
                     ![s].kills = ss[s].kills + 1,
                     ![s].child = IF ss[s].child = "running" THEN "killed"
                                  ELSE ss[s].child,
                     ![s].childCode = IF ss[s].child = "running" THEN -1
                                      ELSE ss[s].childCode]
    /\ UNCHANGED <<policy, policyChanges, euid, activeSessionByH, activeSessionBySharedID>>
    /\ UNCHANGED polVars
    /\ UNCHANGED recVars
    /\ UNCHANGED cacheVars

\* cmd.Wait returns: the child has exited or has been killed.
WaitReturn(s) ==
    /\ ss[s].pc = "wait"
    /\ ss[s].child \in {"exited", "killed"}
    /\ ss' = [ss EXCEPT ![s].pc = "once"]
    /\ UNCHANGED <<policy, policyChanges, euid, activeSessionByH, activeSessionBySharedID>>
    /\ UNCHANGED polVars
    /\ UNCHANGED recVars
    /\ UNCHANGED cacheVars

\* run after cmd.Wait: exitOnce.Do(func() {}) and ss.Exit with the code of
\* the child (0 for a nil error, the ExitError's code otherwise).
RunAfterWait(s) ==
    /\ ss[s].pc = "once"
    /\ ss' = [ss EXCEPT ![s] = Exit([ss[s] EXCEPT !.pc = "return", !.exitOnce = TRUE],
                                    ss[s].childCode)]
    /\ UNCHANGED <<policy, policyChanges, euid, activeSessionByH, activeSessionBySharedID>>
    /\ UNCHANGED polVars
    /\ UNCHANGED recVars
    /\ UNCHANGED cacheVars

\* A run whose return cancels the context and leaves the session registered.
RunReturn_NoEndSession(s) ==
    /\ ss[s].pc = "return"
    /\ ss' = [ss EXCEPT ![s].pc = "exited",
                        ![s].timer = IF ss[s].timer = "armed" THEN "stopped"
                                     ELSE ss[s].timer,
                        ![s].agent = IF ss[s].agent = "listening" THEN "closed"
                                     ELSE ss[s].agent,
                        ![s].ln = IF ss[s].agent = "listening" THEN "closed"
                                  ELSE ss[s].ln,
                        ![s].ctx = CloseWithError(ss[s].ctx, "done")]
    /\ UNCHANGED <<policy, policyChanges, euid, activeSessionByH, activeSessionBySharedID>>
    /\ UNCHANGED polVars
    /\ UNCHANGED recVars
    /\ UNCHANGED cacheVars

\* run returns; its deferred calls: ss.agentListener.Close, t.Stop,
\* ss.ctx.CloseWithError(errSessionDone) and srv.endSession.
RunReturn(s) ==
    /\ ss[s].pc = "return"
    /\ ss' = [ss EXCEPT ![s].pc = "exited",
                        ![s].timer = IF ss[s].timer = "armed" THEN "stopped"
                                     ELSE ss[s].timer,
                        ![s].agent = IF ss[s].agent = "listening" THEN "closed"
                                     ELSE ss[s].agent,
                        ![s].ln = IF ss[s].agent = "listening" THEN "closed"
                                  ELSE ss[s].ln,
                        ![s].ctx = CloseWithError(ss[s].ctx, "done")]
    /\ LET r == endSession(activeSessionByH, activeSessionBySharedID,
                            ss[s].idH, ss[s].sharedID)
       IN /\ activeSessionByH' = r.byH
          /\ activeSessionBySharedID' = r.byS
    /\ UNCHANGED <<policy, policyChanges, euid>>
    /\ UNCHANGED polVars
    /\ UNCHANGED recVars
    /\ UNCHANGED cacheVars

\* The session-duration timer fires: the func given to time.AfterFunc.
TimerFire(s) ==
    /\ ss[s].timer = "armed"
    /\ ss' = [ss EXCEPT ![s].timer = "fired",
                        ![s].ctx = CloseWithError(ss[s].ctx, "timeout")]
    /\ UNCHANGED <<policy, policyChanges, euid, activeSessionByH, activeSessionBySharedID>>
    /\ UNCHANGED polVars
    /\ UNCHANGED recVars
    /\ UNCHANGED cacheVars

\* The client goes away while its session is being served: the connection's
\* own context (ss.Context()) is done, and with it the context of a
\* fetchSSHAction call under way.  No code of the session closes ss.ctx for
\* it.
ClientDisconnect(s) ==
    /\ ss[s].pc \in {"fetch", "run", "setup", "wait", "once", "return"}
    /\ ss[s].client = "connected"
    /\ ss' = [ss EXCEPT ![s].client = "gone",
                        ![s].fetchCtx = IF ss[s].pc = "fetch" /\ ss[s].fetchCtx = ""
                                        THEN "canceled" ELSE ss[s].fetchCtx]
    /\ UNCHANGED <<policy, policyChanges, euid, activeSessionByH, activeSessionBySharedID>>
    /\ UNCHANGED polVars
    /\ UNCHANGED recVars
    /\ UNCHANGED cacheVars

\* getSessionForContext: the session registered under the session id of the
\* connection, 0 with ok false when there is none.
getSessionForContext(byH, sessionID) ==
    [ss |-> byH[sessionID], ok |-> byH[sessionID] # 0]

\* A mayForwardLocalPortTo that answers from the session made for the
\* connection, registered or not.
mayForwardLocalPortTo_Unregistered(byH, sessionID) ==
    \E t \in DOMAIN ss :
        ss[t].idH = sessionID /\ ss[t].action.AllowLocalPortForwarding

\* mayForwardLocalPortTo, for the connection with the given session id.
mayForwardLocalPortTo(byH, sessionID) ==
    LET r == getSessionForContext(byH, sessionID) IN
    IF ~r.ok THEN FALSE
    ELSE ss[r.ss].action.AllowLocalPortForwarding

\* The LocalPortForwardingCallback of the ssh server: the client of session s,
\* on the connection with session id h, asks to open a direct-tcpip channel.
\* forward keeps the answers given so far.
MayForwardLocalPortTo(s, h) ==
    /\ Len(ss[s].forward) < MaxForwardCalls
    /\ ss[s].pc = "idle" \/ h = ss[s].idH
    /\ ss' = [ss EXCEPT ![s].forward =
                 Append(ss[s].forward,
                        [h |-> h, ok |-> mayForwardLocalPortTo(activeSessionByH, h)])]
    /\ UNCHANGED <<policy, policyChanges, euid, activeSessionByH, activeSessionBySharedID>>
    /\ UNCHANGED polVars
    /\ UNCHANGED recVars
    /\ UNCHANGED cacheVars

\* The sessions of srv.activeSessionByH.
ActiveSessions == { activeSessionByH[h] : h \in HKeys } \ {0}

\* The control plane pushes a new policy and the backend calls
\* OnPolicyChange, which starts checkStillValid for every active session.
OnPolicyChange(p) ==
    /\ policyChanges < MaxPolicyChanges
    /\ policy' = p
    /\ policyChanges' = policyChanges + 1
    /\ ss' = [s \in DOMAIN ss |->
                IF s \in ActiveSessions THEN [ss[s] EXCEPT !.checks = ss[s].checks + 1]
                ELSE ss[s]]
    /\ UNCHANGED <<euid, activeSessionByH, activeSessionBySharedID>>
    /\ UNCHANGED polVars
    /\ UNCHANGED recVars
    /\ UNCHANGED cacheVars

\* A validity test that does not compare the local user.
StillValid_AnyUser(p, rec, t) ==
    LET r == evaluatePolicy(p, rec.conn, t) IN
    r.err = "" /\ (r.a.Accept \/ r.a.HoldAndDelegate # "")

\* The test of checkStillValid: the policy still yields Accept or
\* HoldAndDelegate and the same local user for the session's connection.
StillValid(p, rec, t) ==
    LET r == evaluatePolicy(p, rec.conn, t) IN
    r.err = "" /\ (r.a.Accept \/ r.a.HoldAndDelegate # "") /\ r.localUser = rec.localUser

\* checkStillValid, started by OnPolicyChange.
checkStillValid(s) ==
    /\ ss[s].checks > 0
    /\ IF StillValid(policy, ss[s], now)
       THEN ss' = [ss EXCEPT ![s].checks = ss[s].checks - 1]
       ELSE ss' = [ss EXCEPT ![s].checks = ss[s].checks - 1,
                             ![s].ctx = CloseWithError(ss[s].ctx, "revoked")]
    /\ UNCHANGED <<policy, policyChanges, euid, activeSessionByH, activeSessionBySharedID>>
    /\ UNCHANGED polVars
    /\ UNCHANGED recVars
    /\ UNCHANGED cacheVars

\* The policies the control plane can install.
PolicyOf(a, users, expires) == Policy(<<Rule(a, expires, users, <<AnyPrincipal>>)>>)

\* The expiry of the rules that expire, and the times a connection arrives.
RuleExpiry   == 10
ArrivalTimes == {0, pubKeyCacheEmptyDuration}

StartPolicies ==
    { NoPolicy,
      PolicyOf(AcceptAction, SameUser, NilTime),
      PolicyOf(TimedAccept, SameUser, NilTime),
      PolicyOf(GreetAccept, WildcardToBob, NilTime),
      PolicyOf(HoldWithMsg, SameUser, NilTime),
      PolicyOf(RejectWithMsg, NilMap, NilTime),
      PolicyOf(AcceptReject, SameUser, NilTime),
      PolicyOf(EmptyAction, SameUser, NilTime),
      PolicyOf(AcceptAction, SameUser, RuleExpiry) }

NextPolicies ==
    { NoPolicy,
      PolicyOf(AcceptAction, SameUser, NilTime),
      PolicyOf(HoldWithMsg, SameUser, NilTime),
      PolicyOf(AcceptAction, WildcardToBob, NilTime),
      PolicyOf(AcceptAction, SameUser, RuleExpiry),
      PolicyOf(RejectAction, NilMap, NilTime) }

EmptyRegistry ==
    /\ activeSessionByH = [h \in HKeys |-> 0]
    /\ activeSessionBySharedID = [x \in SKeys |-> 0]

SessionsIdle ==
    /\ policy = NoPolicy
    /\ policyChanges = 0
    /\ euid = 0
    /\ EmptyRegistry
    /\ ss = [s \in OneSession |-> IdleSession]

InitSession ==
    /\ policy \in StartPolicies
    /\ policyChanges = 0
    /\ euid \in {0, 1000}
    /\ EmptyRegistry
    /\ ss = [s \in OneSession |-> IdleSession]
    /\ PolicyIdle
    /\ RecordingIdle
    /\ now \in ArrivalTimes
    /\ fetchPublicKeysCache = [u \in CacheURLs |-> NoEntry]
    /\ cacheOthers = 0
    /\ call = [c \in Callers |-> IdleCall]

NextSession ==
    \/ \E s \in DOMAIN ss, conn \in Conns : HandleSSH(s, conn, "h1", "x1")
    \/ \E s \in DOMAIN ss, a \in DelegateActions : FetchReply(s, a)
    \/ \E s \in DOMAIN ss, k \in FetchFailures : FetchRetry(s, k)
    \/ \E s \in DOMAIN ss : BudgetElapse(s)
    \/ \E s \in DOMAIN ss : FetchAbort(s)
    \/ \E s \in DOMAIN ss : RunStart(s)
    \/ \E s \in DOMAIN ss, o \in SetupOutcomes : RunLaunch(s, "none", o)
    \/ \E s \in DOMAIN ss, code \in {0, 3} : ChildExit(s, code)
    \/ \E s \in DOMAIN ss : killProcessOnContextDone(s)
    \/ \E s \in DOMAIN ss : WaitReturn(s)
    \/ \E s \in DOMAIN ss : RunAfterWait(s)
    \/ \E s \in DOMAIN ss : RunReturn(s)
    \/ \E s \in DOMAIN ss : TimerFire(s)
    \/ \E p \in NextPolicies : OnPolicyChange(p)
    \/ \E s \in DOMAIN ss : checkStillValid(s)

SpecSession == InitSession /\ [][NextSession]_vars

\* The goroutines started by run and by OnPolicyChange run to completion.
FairSpecSession ==
    /\ SpecSession
    /\ \A s \in OneSession : WF_vars(checkStillValid(s))
    /\ \A s \in OneSession : WF_vars(killProcessOnContextDone(s))

-----------------------------------------------------------------------------
(* Properties of a session.                                                *)

\* C3: an action returned by resolveTerminalAction without error is non-nil
\* and has Accept or Reject set; an action with none of Accept, Reject and
\* HoldAndDelegate is not returned: the handler gets an error, reports it and
\* exits with code 1.
C3_ReturnsAcceptOrReject ==
    \A s \in DOMAIN ss :
        /\ ss[s].resolved =>
              /\ ~ss[s].action.nil
              /\ ss[s].action.Accept \/ ss[s].action.Reject
        /\ ( /\ ~ss[s].action.nil
             /\ ~ss[s].action.Accept
             /\ ~ss[s].action.Reject
             /\ ss[s].action.HoldAndDelegate = "" ) =>
              /\ ~ss[s].resolved
              /\ ss[s].pc = "exited" /\ ss[s].exited /\ ss[s].exitCode = 1
              /\ ss[s].child = "none"

\* A terminal action reached after two answers of the control plane.
C3_Witness ==
    \E s \in DOMAIN ss :
        /\ ss[s].hops = 2
        /\ ss[s].resolved
        /\ ss[s].action = RejectWithMsg

\* An action without Accept, Reject and HoldAndDelegate answered by the
\* control plane.
C3_WitnessEmpty ==
    \E s \in DOMAIN ss :
        /\ ss[s].hops = 1
        /\ ss[s].action = EmptyAction
        /\ ss[s].exited

InByH(s)      == \E h \in HKeys : activeSessionByH[h] = s
InByShared(s) == \E x \in SKeys : activeSessionBySharedID[x] = s

Granted(s) ==
    /\ ss[s].matched
    /\ ss[s].resolved
    /\ ss[s].action.Accept
    /\ ~ss[s].action.Reject

\* C4: a session has a child or an entry in the registry only if the policy
\* matched, the action resolved without error and the terminal action has
\* Accept and not Reject; a handler that went any other way has exited with
\* code 1 and has no child.
C4_RunsOnlyWhenGranted ==
    \A s \in DOMAIN ss :
        /\ (ss[s].child # "none" \/ InByH(s) \/ InByShared(s) \/
            ss[s].pc \in {"run", "setup", "wait", "once", "return", "panicked"})
              => Granted(s)
        /\ (ss[s].pc \notin {"idle", "fetch"} /\ ~Granted(s)) =>
              /\ ss[s].pc = "exited" /\ ss[s].exited /\ ss[s].exitCode = 1
              /\ ss[s].child = "none"
              /\ ~InByH(s) /\ ~InByShared(s)

\* A terminal action with both Accept and Reject, answered by the control
\* plane: the handler has exited with 1.
C4_Witness ==
    \E s \in DOMAIN ss :
        /\ ss[s].resolved
        /\ ss[s].action = AcceptReject
        /\ ss[s].hops = 1
        /\ ss[s].pc = "exited" /\ ss[s].exitCode = 1 /\ ss[s].child = "none"

\* A granted session whose child runs.
C4_WitnessGranted ==
    \E s \in DOMAIN ss : Granted(s) /\ ss[s].child = "running" /\ InByH(s)

\* C7: in every session the child is killed at most once and the
\* termination message is written at most once.
C7_KillAndMessageAtMostOnce ==
    \A s \in DOMAIN ss : ss[s].kills <= 1 /\ ss[s].termMsgs <= 1

\* The timer has fired, a revalidation has run, run has returned, and the
\* child was killed with a termination message.
C7_Witness ==
    \E s \in DOMAIN ss :
        /\ ss[s].kills = 1 /\ ss[s].termMsgs = 1
        /\ ss[s].timer = "fired"
        /\ policyChanges = 1 /\ ss[s].checks = 0
        /\ ss[s].child = "killed"
        /\ ss[s].pc = "exited"

\* The test of C8 on the session's stored connection under the current
\* policy.
StillAllowed(s) ==
    LET r == evaluatePolicy(policy, ss[s].conn, now) IN
    /\ r.err = ""
    /\ r.a.Accept \/ r.a.HoldAndDelegate # ""
    /\ r.localUser = ss[s].localUser

\* A step of OnPolicyChange starts a revalidation of every registered
\* session; a revalidation of a session that is no longer allowed leaves its
\* context cancelled, with the cause "Access revoked." when the context was
\* still open, and a revalidation of a session that is still allowed leaves
\* its context as it is.
RevalidationStep ==
    /\ \A p \in NextPolicies :
          OnPolicyChange(p) =>
              \A s \in DOMAIN ss : InByH(s) => ss'[s].checks = ss[s].checks + 1
    /\ \A s \in DOMAIN ss :
          checkStillValid(s) =>
              IF StillAllowed(s)
              THEN ss'[s].ctx = ss[s].ctx
              ELSE /\ ss'[s].ctx.closed
                   /\ ~ss[s].ctx.closed => ss'[s].ctx.cause = "revoked"

C8_WitnessKept ==
    \E s \in DOMAIN ss :
        /\ ~ss[s].ctx.closed
        /\ ss[s].checks = 0 /\ policyChanges = 1
        /\ StillAllowed(s)
        /\ ss[s].child = "running"

\* The text without its carriage returns.
RECURSIVE StripCR(_)
StripCR(txt) ==
    IF txt = <<>> THEN <<>>
    ELSE (IF Head(txt) = "\r" THEN <<>> ELSE <<Head(txt)>>) \o StripCR(Tail(txt))

\* out is msg with every line feed turned into carriage return, line feed.
IsCRLFOf(out, msg) ==
    /\ StripCR(out) = msg
    /\ \A k \in 1..Len(out) :
         /\ out[k] = "\n" => (k > 1 /\ out[k - 1] = "\r")
         /\ out[k] = "\r" => (k < Len(out) /\ out[k + 1] = "\n")

\* The Messages of the actions of a chain that carry one, in chain order.
RECURSIVE MessagesOf(_)
MessagesOf(chain) ==
    IF chain = <<>> THEN <<>>
    ELSE (IF Head(chain).Message # <<>> THEN <<Head(chain).Message>> ELSE <<>>)
         \o MessagesOf(Tail(chain))

\* C22: what the session's stderr holds begins with the Messages of the
\* actions of the chain, in chain order, each once and with its line feeds
\* translated; when a delegate fetch is under way and when the chain has just
\* ended in a terminal action, the Message of every action of the chain,
\* the current one included, has been written and nothing else has.
C22_MessagesBeforeFetch ==
    \A s \in DOMAIN ss :
        LET msgs == MessagesOf(ss[s].chain) IN
        /\ Len(ss[s].stderr) >= Len(msgs)
        /\ \A k \in 1..Len(msgs) : IsCRLFOf(ss[s].stderr[k], msgs[k])
        /\ ss[s].pc \in {"fetch", "run"} => Len(ss[s].stderr) = Len(msgs)
        /\ ss[s].chain # <<>> => ss[s].chain[Len(ss[s].chain)] = ss[s].action

\* C22 witness: a rule's action and the control plane's answer both held and
\* carried a Message, and the session waits for the next answer with both
\* written.
C22_Witness ==
    \E s \in DOMAIN ss :
        /\ ss[s].pc = "fetch"
        /\ ss[s].chain = <<HoldWithMsg, HoldWithMsg>>
        /\ ss[s].stderr = <<<<"visit", "\r", "\n">>, <<"visit", "\r", "\n">>>>

\* C22 witness: after a held action with a Message, the terminal action
\* carried one too and the session goes on to run.
C22_WitnessTerminal ==
    \E s \in DOMAIN ss :
        /\ ss[s].pc = "run"
        /\ ss[s].chain = <<HoldWithMsg, GreetAccept>>
        /\ ss[s].stderr = <<<<"visit", "\r", "\n">>, <<"hi", "\r", "\n">>>>

-----------------------------------------------------------------------------
(* Specification SpecRegistry: sessions that run concurrently, from the    *)
(* arrival of their connections to the end of run.                         *)

AliceConn == Conn("alice", TRUE, TRUE, TRUE, NilKey)

InitRegistry ==
    /\ policy = PolicyOf(AcceptAction, SameUser, NilTime)
    /\ policyChanges = 0
    /\ euid = 0
    /\ EmptyRegistry
    /\ ss = [s \in Sessions |-> IdleSession]
    /\ PolicyIdle
    /\ RecordingIdle
    /\ CacheIdle

NextRegistry ==
    \/ \E s \in DOMAIN ss, h \in HIDs, x \in SharedIDs : HandleSSH(s, AliceConn, h, x)
    \/ \E s \in DOMAIN ss : RunStart(s)
    \/ \E s \in DOMAIN ss, o \in {"started", "start failed"} : RunLaunch(s, "none", o)
    \/ \E s \in DOMAIN ss : ChildExit(s, 0)
    \/ \E s \in DOMAIN ss : killProcessOnContextDone(s)
    \/ \E s \in DOMAIN ss : WaitReturn(s)
    \/ \E s \in DOMAIN ss : RunAfterWait(s)
    \/ \E s \in DOMAIN ss : RunReturn(s)

SpecRegistry == InitRegistry /\ [][NextRegistry]_vars

\* C5: every session is in both indices or in neither, and an index holds a
\* session only under that session's own id.
C5_InBothIndicesOrNeither ==
    \A s \in DOMAIN ss :
        /\ InByH(s) <=> InByShared(s)
        /\ \A h \in HKeys : activeSessionByH[h] = s => h = ss[s].idH
        /\ \A x \in SKeys : activeSessionBySharedID[x] = s => x = ss[s].sharedID

\* startSession of one session has panicked on the idH of another session,
\* which is registered under both its ids.
C5_Witness ==
    \E s, t \in DOMAIN ss :
        /\ s # t
        /\ ss[s].pc = "panicked"
        /\ ss[s].idH = ss[t].idH /\ ss[s].sharedID # ss[t].sharedID
        /\ activeSessionByH[ss[t].idH] = t
        /\ activeSessionBySharedID[ss[t].sharedID] = t
        /\ ~InByH(s) /\ ~InByShared(s)

\* Session s is in both indices, under its own two ids.
Registered(s) ==
    /\ activeSessionByH[ss[s].idH] = s
    /\ activeSessionBySharedID[ss[s].sharedID] = s

\* A step that launches the child of a session starts from a state in which
\* the session is registered, and a child that runs after a step belongs to a
\* registered session.
LaunchStep ==
    \A s \in DOMAIN ss :
        /\ (ss[s].child = "none" /\ ss'[s].child # "none") => Registered(s)
        /\ ss'[s].child = "running" =>
              (activeSessionByH'[ss'[s].idH] = s /\ activeSessionBySharedID'[ss'[s].sharedID] = s)

\* C21: the child of a session is launched only after startSession has
\* returned for it: every launch starts from a state where the session is in
\* both indices, and a running child always belongs to such a session.
C21_LaunchAfterRegistration == [][LaunchStep]_vars

\* C21 witness: two sessions are registered and the child of each runs.
C21_Witness ==
    \E s, t \in DOMAIN ss :
        /\ s # t
        /\ ss[s].child = "running" /\ ss[t].child = "running"
        /\ Registered(s) /\ Registered(t)

-----------------------------------------------------------------------------
(* Specification SpecRegistryCalls: startSession and endSession called in  *)
(* any order on sessions with any ids.                                     *)

\* The ids of the sessions handed to startSession and endSession.
SessionIds ==
    { <<"h1", "x1">>, <<"h1", "x2">>, <<"h2", "x1">>, <<"", "x2">>, <<"h2", "">> }

InitRegistryCalls ==
    /\ policy = NoPolicy
    /\ policyChanges = 0
    /\ euid = 0
    /\ EmptyRegistry
    /\ \E ids \in [Sessions -> SessionIds] :
          ss = [s \in Sessions |->
                  [IdleSession EXCEPT !.pc = "new", !.idH = ids[s][1],
                                      !.sharedID = ids[s][2]]]
    /\ PolicyIdle
    /\ RecordingIdle
    /\ CacheIdle

\* A call of startSession; a panic is recovered by the caller.
StartSessionCall(s) ==
    /\ ss[s].pc \in {"new", "started", "recovered", "ended"}
    /\ ss[s].calls < MaxCalls
    /\ LET r == startSession(activeSessionByH, activeSessionBySharedID,
                             ss[s].idH, ss[s].sharedID, s)
       IN /\ activeSessionByH' = r.byH
          /\ activeSessionBySharedID' = r.byS
          /\ ss' = [ss EXCEPT ![s].calls = ss[s].calls + 1,
                              ![s].pc = IF r.panicked THEN "recovered" ELSE "started"]
    /\ UNCHANGED <<policy, policyChanges, euid>>
    /\ UNCHANGED polVars
    /\ UNCHANGED recVars
    /\ UNCHANGED cacheVars

\* A call of endSession.
EndSessionCall(s) ==
    /\ ss[s].pc \in {"new", "started", "recovered", "ended"}
    /\ ss[s].calls < MaxCalls
    /\ LET r == endSession(activeSessionByH, activeSessionBySharedID,
                           ss[s].idH, ss[s].sharedID)
       IN /\ activeSessionByH' = r.byH
          /\ activeSessionBySharedID' = r.byS
          /\ ss' = [ss EXCEPT ![s].calls = ss[s].calls + 1, ![s].pc = "ended"]
    /\ UNCHANGED <<policy, policyChanges, euid>>
    /\ UNCHANGED polVars
    /\ UNCHANGED recVars
    /\ UNCHANGED cacheVars

NextRegistryCalls ==
    \/ \E s \in DOMAIN ss : StartSessionCall(s)
    \/ \E s \in DOMAIN ss : EndSessionCall(s)

SpecRegistryCalls == InitRegistryCalls /\ [][NextRegistryCalls]_vars

\* The session is the one both indices hold under its ids.
IsRegistered(s) ==
    /\ activeSessionByH[ss[s].idH] = s
    /\ activeSessionBySharedID[ss[s].sharedID] = s

\* An id of the session is empty or is present in its index.
EmptyOrDuplicateId(s) ==
    \/ ss[s].idH = ""
    \/ ss[s].sharedID = ""
    \/ activeSessionByH[ss[s].idH] # 0
    \/ activeSessionBySharedID[ss[s].sharedID] # 0

\* startSession panics exactly on an empty or duplicate id and then leaves
\* both indices as they are; otherwise it enters the session in both.
StartSessionContract(s) ==
    StartSessionCall(s) =>
        IF EmptyOrDuplicateId(s)
        THEN /\ ss'[s].pc = "recovered"
             /\ UNCHANGED <<activeSessionByH, activeSessionBySharedID>>
        ELSE /\ ss'[s].pc = "started"
             /\ IsRegistered(s)'

-----------------------------------------------------------------------------
(* Specification SpecCache: callers of fetchPublicKeysURLCached and the    *)
(* clock.                                                                  *)

InitCache == CacheIdle /\ PolicyIdle /\ SessionsIdle /\ RecordingIdle

NextCache ==
    \/ \E c \in Callers, url \in CallURLs : FetchStart(c, url)
    \/ \E c \in Callers, res \in Responses : FetchFinish(c, res)
    \/ Tick

SpecCache == InitCache /\ [][NextCache]_vars

-----------------------------------------------------------------------------
(* Properties of the public-key cache.                                     *)

\* now - at < maxAge, with maxAge 60 s for cached lines and 15 s for none.
Fresh(e, t) == t - e.at < (IF e.lines = <<>> THEN 15 ELSE 60)

\* C9: a fetchPublicKeysURL call for a URL whose cache entry is fresh returns
\* the cached lines without error, issues no GET and leaves the cache as it
\* was; for a stale entry a GET is issued, with If-None-Match set to the
\* cached etag when that is non-empty.
C9_FreshServedFromCache ==
    [][\A c \in Callers, url \in CacheURLs :
          (FetchStart(c, url) /\ fetchPublicKeysCache[url].found) =>
              LET e == fetchPublicKeysCache[url] IN
              IF Fresh(e, now)
              THEN /\ call'[c].pc = "done"
                   /\ call'[c].lines = e.lines
                   /\ call'[c].err = ""
                   /\ ~call'[c].sent
                   /\ fetchPublicKeysCache' = fetchPublicKeysCache
                   /\ cacheOthers' = cacheOthers
              ELSE /\ call'[c].pc = "get"
                   /\ call'[c].sent
                   /\ e.etag # "" => call'[c].inm = e.etag]_vars

\* C9 holds of every call made while the cache holds at most 50 entries.
C9_UpToThreshold ==
    [][\A c \in Callers, url \in CacheURLs :
          (/\ FetchStart(c, url)
           /\ fetchPublicKeysCache[url].found
           /\ CacheLen(fetchPublicKeysCache, cacheOthers) <= 50) =>
              LET e == fetchPublicKeysCache[url] IN
              IF Fresh(e, now)
              THEN /\ call'[c].pc = "done"
                   /\ call'[c].lines = e.lines
                   /\ call'[c].err = ""
                   /\ ~call'[c].sent
                   /\ fetchPublicKeysCache' = fetchPublicKeysCache
                   /\ cacheOthers' = cacheOthers
              ELSE /\ call'[c].pc = "get"
                   /\ call'[c].sent
                   /\ e.etag # "" => call'[c].inm = e.etag]_vars

\* C10: when a GET that carried If-None-Match is answered 304 Not Modified,
\* the call returns the lines it found cached, without error, and the cache
\* entry then holds those lines and that etag, stamped with the current time.
C10_NotModifiedKeepsEntry ==
    [][\A c \in Callers :
          (/\ call[c].pc = "get" /\ call[c].inm # ""
           /\ call'[c].pc = "done" /\ call'[c].status = 304) =>
              /\ call'[c].lines = call[c].ce.lines
              /\ call'[c].err = ""
              /\ fetchPublicKeysCache'[call[c].url] =
                     CacheEntry(call[c].ce.lines, call[c].ce.etag, now')]_vars

\* C10 witness: a revalidation of a stale non-empty entry was answered 304
\* and the entry, refreshed at a later time, still has its lines and etag.
C10_Witness ==
    \E c \in Callers :
        /\ call[c].pc = "done" /\ call[c].status = 304 /\ call[c].inm = "v1"
        /\ call[c].url = URLa
        /\ call[c].lines = <<KeyLine1>>
        /\ fetchPublicKeysCache[URLa] = CacheEntry(<<KeyLine1>>, "v1", now)
        /\ now >= 60

\* C11: an answer with a status other than 200 and 304 makes the call return
\* an error and writes an entry without lines, stamped with the current
\* time; a further call for the URL less than 15 seconds later is answered
\* from the cache, without a GET.
C11_ErrorStatusCached ==
    [][\A c \in Callers :
          /\ (/\ call[c].pc = "get" /\ call'[c].pc = "done"
              /\ call'[c].status \notin {0, 200, 304}) =>
                 /\ call'[c].err # ""
                 /\ call[c].url \in CacheURLs =>
                       fetchPublicKeysCache'[call[c].url] = CacheEntry(<<>>, "", now)
          /\ \A url \in CacheURLs :
                (/\ FetchStart(c, url)
                 /\ call[c].pc = "done" /\ call[c].url = url
                 /\ call[c].status \notin {0, 200, 304}
                 /\ fetchPublicKeysCache[url].found
                 /\ now - fetchPublicKeysCache[url].at < pubKeyCacheEmptyDuration) =>
                    /\ call'[c].pc = "done"
                    /\ ~call'[c].sent]_vars

\* C11 holds of every call made while the cache holds at most 50 entries.
C11_UpToThreshold ==
    [][\A c \in Callers :
          /\ (/\ call[c].pc = "get" /\ call'[c].pc = "done"
              /\ call'[c].status \notin {0, 200, 304}) =>
                 /\ call'[c].err # ""
                 /\ call[c].url \in CacheURLs =>
                       fetchPublicKeysCache'[call[c].url] = CacheEntry(<<>>, "", now)
          /\ \A url \in CacheURLs :
                (/\ FetchStart(c, url)
                 /\ call[c].pc = "done" /\ call[c].url = url
                 /\ call[c].status \notin {0, 200, 304}
                 /\ fetchPublicKeysCache[url].found
                 /\ now - fetchPublicKeysCache[url].at < pubKeyCacheEmptyDuration
                 /\ CacheLen(fetchPublicKeysCache, cacheOthers) <= CleanupThreshold) =>
                    /\ call'[c].pc = "done"
                    /\ ~call'[c].sent]_vars

\* C12 as stated: after a GET that failed without a response, a second call
\* for the same URL less than 15 seconds later (before the clock has
\* advanced by pubKeyCacheEmptyDuration) does not issue a GET.
C12_FailureCached ==
    [][\A c \in Callers, url \in CacheURLs :
          (/\ FetchStart(c, url)
           /\ call[c].pc = "done" /\ call[c].url = url
           /\ call[c].err = "transport"
           /\ call[c].justFailed) =>
              ~call'[c].sent]_vars

\* C12 amended: a GET that fails without a response is not cached: the call
\* returns the error and no lines and leaves the cache as it was, and a
\* second call for the same URL issues another GET unless the cache holds a
\* fresh entry for it.
C12_FailureNotCached ==
    [][\A c \in Callers :
          /\ (/\ call[c].pc = "get" /\ call'[c].pc = "done"
              /\ call'[c].err = "transport") =>
                 /\ call'[c].lines = <<>>
                 /\ fetchPublicKeysCache' = fetchPublicKeysCache
                 /\ cacheOthers' = cacheOthers
          /\ \A url \in CacheURLs :
                (/\ call[c].pc = "done" /\ call[c].url = url
                 /\ call[c].err = "transport"
                 /\ call'[c] # call[c] /\ now' = now /\ call'[c].url = url
                 /\ ~(fetchPublicKeysCache[url].found /\
                      Fresh(fetchPublicKeysCache[url], now))) =>
                    /\ call'[c].pc = "get"
                    /\ call'[c].sent]_vars

\* The revalidation of a stale entry has failed without a response and the
\* entry is as it was.
C12_Witness ==
    \E c \in Callers :
        /\ call[c].pc = "done" /\ call[c].err = "transport" /\ call[c].url = URLa
        /\ call[c].justFailed
        /\ call[c].inm = "v1"
        /\ fetchPublicKeysCache[URLa].found
        /\ fetchPublicKeysCache[URLa].lines = <<KeyLine1>>
        /\ now - fetchPublicKeysCache[URLa].at >= pubKeyCacheDuration

\* C31: the cleanup that a lookup runs when the cache holds more than 50
\* entries removes only entries that are no longer fresh: an entry within its
\* freshness window (60 s with lines, 15 s without) survives it, so a lookup
\* of a fresh URL is served from the cache whatever the size of the cache;
\* with 50 entries or fewer a lookup removes nothing.
C31_CleanupKeepsFresh ==
    [][\A c \in Callers, url \in CallURLs :
          (FetchStart(c, url) /\ HasHTTPSPrefix(url)) =>
              /\ \A u \in CacheURLs :
                    (fetchPublicKeysCache[u].found /\ Fresh(fetchPublicKeysCache[u], now))
                       => fetchPublicKeysCache'[u] = fetchPublicKeysCache[u]
              /\ (/\ url \in CacheURLs
                  /\ fetchPublicKeysCache[url].found
                  /\ Fresh(fetchPublicKeysCache[url], now)) =>
                     (call'[c].pc = "done" /\ ~call'[c].sent)
              /\ CacheLen(fetchPublicKeysCache, cacheOthers) <= 50 =>
                     (fetchPublicKeysCache' = fetchPublicKeysCache /\
                      cacheOthers' = cacheOthers)]_vars

\* C31, the part the code keeps: a lookup made while the cache holds 50
\* entries or fewer removes nothing and serves a fresh entry from the cache.
C31_NoCleanupUpToThreshold ==
    [][\A c \in Callers, url \in CallURLs :
          (/\ FetchStart(c, url) /\ HasHTTPSPrefix(url)
           /\ CacheLen(fetchPublicKeysCache, cacheOthers) <= 50) =>
              /\ fetchPublicKeysCache' = fetchPublicKeysCache
              /\ cacheOthers' = cacheOthers
              /\ (/\ url \in CacheURLs
                  /\ fetchPublicKeysCache[url].found
                  /\ Fresh(fetchPublicKeysCache[url], now)) =>
                     (call'[c].pc = "done" /\ ~call'[c].sent)]_vars

\* C31: what the cleanup does with more than 50 entries: it removes every
\* entry, the fresh ones too.
C31_CleanupRemovesAll ==
    [][\A c \in Callers, url \in CallURLs :
          (/\ FetchStart(c, url) /\ HasHTTPSPrefix(url)
           /\ CacheLen(fetchPublicKeysCache, cacheOthers) > 50) =>
              /\ \A u \in CacheURLs : ~fetchPublicKeysCache'[u].found
              /\ cacheOthers' = 0
              /\ call'[c].pc = "get"]_vars

-----------------------------------------------------------------------------
(* Specification SpecPolicy: evalSSHPolicy applied to every input.         *)

InitPolicy ==
    /\ pol \in InputPolicies
    /\ ci \in InputConnInfos
    /\ evalRes = NotEvaluated
    /\ auth = NoAuth
    /\ CacheIdle
    /\ SessionsIdle
    /\ RecordingIdle

\* One call of evalSSHPolicy(pol, ci).
Eval ==
    /\ ~evalRes.done
    /\ LET r == evalSSHPolicy(pol, ci) IN
         evalRes' = [done |-> TRUE, a |-> r.a, localUser |-> r.localUser, ok |-> r.ok]
    /\ UNCHANGED <<pol, ci, auth>>
    /\ UNCHANGED recVars
    /\ UNCHANGED cacheVars
    /\ UNCHANGED sessVars

NextPolicy == Eval

SpecPolicy == InitPolicy /\ [][NextPolicy]_vars

-----------------------------------------------------------------------------
(* Properties of the policy matcher.                                       *)

\* The indices of the rules of p that matchRule accepts for c.
MatchingRules(p, c) ==
    { i \in 1..Len(p.Rules) : matchRule(p.Rules[i], c).err = "" }

Min(S) == CHOOSE x \in S : \A y \in S : x <= y

\* The subsequence of seq at the indices not in D.
RECURSIVE DropAt(_, _, _)
DropAt(seq, D, i) ==
    IF i > Len(seq) THEN <<>>
    ELSE (IF i \in D THEN <<>> ELSE <<seq[i]>>) \o DropAt(seq, D, i + 1)

Without(p, D) == Policy(DropAt(p.Rules, D, 1))

Returned(r) == EvalResult(r.a, r.localUser, r.ok)

\* C1: evalSSHPolicy returns the action and local user of the first rule, in
\* list order, that matchRule accepts, and reports no match iff no rule
\* matches; deleting non-matching rules that precede the first matching rule
\* leaves the result unchanged.
C1_FirstMatchWins ==
    evalRes.done =>
        LET I == MatchingRules(pol, ci) IN
        /\ evalRes.ok <=> I # {}
        /\ I = {} => evalRes.a.nil /\ evalRes.localUser = ""
        /\ I # {} =>
              LET k == Min(I)
                  m == matchRule(pol.Rules[k], ci)
              IN /\ evalRes.a = pol.Rules[k].Action
                 /\ evalRes.a = m.a
                 /\ evalRes.localUser = m.localUser
                 /\ \A D \in SUBSET (1..(k - 1)) :
                        evalSSHPolicy(Without(pol, D), ci) = Returned(evalRes)

\* C1 witness: the first matching rule is not the first rule, and a later
\* rule matches with another result.
C1_Witness ==
    /\ evalRes.done /\ evalRes.ok
    /\ LET I == MatchingRules(pol, ci) IN
         /\ Min(I) >= 2
         /\ \E j \in I : j > Min(I) /\ pol.Rules[j].Action # evalRes.a

\* A rule with a nil action or an expiry strictly before c.now.
DeadRule(r, c) ==
    r.nil \/ r.Action.nil \/ (r.RuleExpires # NilTime /\ r.RuleExpires < c.now)

\* A rule that is not dead, maps the requested user and has an Any principal
\* without key constraint.
OpenRule(r, c) ==
    /\ ~DeadRule(r, c)
    /\ mapLocalUser(r.SSHUsers, c.sshUser) # ""
    /\ \E i \in 1..Len(r.Principals) :
          (~r.Principals[i].nil) /\ r.Principals[i].Any /\ r.Principals[i].PubKeys = <<>>

DeadRules(p, c) == { i \in 1..Len(p.Rules) : DeadRule(p.Rules[i], c) }

\* C2: a rule with a nil action or an expiry strictly before now never
\* produces a match, whatever else it holds: a policy of such rules matches
\* nothing and such rules have no influence on the result; a rule with no
\* expiry, or expiring at or after now, is not treated as expired.
C2_DeadRulesNeverMatch ==
    evalRes.done =>
        /\ \A i \in DeadRules(pol, ci) : matchRule(pol.Rules[i], ci).err # ""
        /\ DeadRules(pol, ci) = 1..Len(pol.Rules) => ~evalRes.ok
        /\ evalSSHPolicy(Without(pol, DeadRules(pol, ci)), ci) = Returned(evalRes)
        /\ (\E i \in 1..Len(pol.Rules) : OpenRule(pol.Rules[i], ci)) => evalRes.ok

\* C2 witness: an expired rule that would otherwise match comes first and
\* nothing matches, while the policy also holds a rule with a nil action.
C2_Witness ==
    /\ evalRes.done /\ ~evalRes.ok
    /\ Len(pol.Rules) = 2
    /\ LET r == pol.Rules[1] IN
         /\ ~r.nil /\ r.Action = AcceptAction /\ r.RuleExpires # NilTime
         /\ r.RuleExpires < ci.now
         /\ OpenRule([r EXCEPT !.RuleExpires = NilTime], ci)
    /\ ~pol.Rules[2].nil /\ pol.Rules[2].Action.nil

\* C2 witness of the other half: a rule expiring exactly now matches.
C2_WitnessAtNow ==
    /\ evalRes.done /\ evalRes.ok
    /\ Len(pol.Rules) = 1
    /\ pol.Rules[1].RuleExpires = ci.now

-----------------------------------------------------------------------------
(* Specification SpecAuth: the two auth callbacks of a connection,         *)
(* requiresPubKey (is "none" auth refused?) and acceptPubKey (is the       *)
(* presented key let in?), applied to a policy and a connection.           *)

MaxAuthRules == 2    \* longest policy handed to the auth callbacks

\* A principal of another node that lists a key.
KeyedOtherNode == Principal(FALSE, "n2", "", "", <<KeyLine1>>)

\* The rules of the auth policies: one per way of asking for a key and of not
\* asking for one.
AuthRules ==
    { NilRule,
      Rule(AcceptAction, NilTime, SameUser, <<AnyPrincipal>>),
      Rule(AcceptAction, NilTime, SameUser, <<KeyedLogin>>),
      Rule(AcceptAction, RuleExpiry, SameUser, <<KeyedLogin>>),
      Rule(HoldAction, NilTime, WildcardToBob, <<AnyPrincipal>>),
      Rule(RejectAction, NilTime, NilMap, <<AnyPrincipal>>),
      Rule(RejectAction, NilTime, NilMap, <<KeyedLogin>>),
      Rule(AcceptAction, NilTime, SameUser, <<NilPrincipal, KeyedLogin>>),
      Rule(AcceptAction, NilTime, SameUser, <<KeyedOtherNode>>),
      Rule(NilAction, NilTime, SameUser, <<KeyedLogin>>) }

AuthPolicies == {NoPolicy} \cup { Policy(rs) : rs \in SeqsUpTo(AuthRules, MaxAuthRules) }

\* The connections in their auth phase: the key is the one the client
\* presents to acceptPubKey ("k3" is on no list).
AuthConns ==
    { Conn(u, rts, lts, w, Key("ssh-ed25519", k)) :
        u \in {"alice", "carol"}, rts \in BOOLEAN, lts \in BOOLEAN, w \in BOOLEAN,
        k \in {"k1", "k3"} }

InitAuth ==
    /\ policy \in AuthPolicies
    /\ now \in ArrivalTimes
    /\ auth \in { [conn |-> c, requiresPubKey |-> "", acceptPubKey |-> ""] : c \in AuthConns }
    /\ pol = Policy(<<>>)
    /\ ci = ConnInfo(0, "alice", NilKey)
    /\ evalRes = NotEvaluated
    /\ RecordingIdle
    /\ fetchPublicKeysCache = [u \in CacheURLs |-> NoEntry]
    /\ cacheOthers = 0
    /\ call = [c \in Callers |-> IdleCall]
    /\ policyChanges = 0
    /\ euid = 0
    /\ EmptyRegistry
    /\ ss = [s \in OneSession |-> IdleSession]

\* The NoClientAuthCallback asks requiresPubKey.
RequiresPubKey ==
    /\ auth.requiresPubKey = ""
    /\ auth' = [auth EXCEPT !.requiresPubKey = requiresPubKey(policy, auth.conn, now)]
    /\ UNCHANGED <<pol, ci, evalRes>>
    /\ UNCHANGED recVars
    /\ UNCHANGED cacheVars
    /\ UNCHANGED sessVars

\* The PublicKeyHandler asks acceptPubKey.
AcceptPubKey ==
    /\ auth.acceptPubKey = ""
    /\ auth' = [auth EXCEPT !.acceptPubKey =
                   IF acceptPubKey(policy, auth.conn, now) THEN "true" ELSE "false"]
    /\ UNCHANGED <<pol, ci, evalRes>>
    /\ UNCHANGED recVars
    /\ UNCHANGED cacheVars
    /\ UNCHANGED sessVars

NextAuth ==
    \/ RequiresPubKey
    \/ AcceptPubKey

SpecAuth == InitAuth /\ [][NextAuth]_vars

-----------------------------------------------------------------------------
(* Properties of SpecAuth.                                                 *)

\* The mesh identity of the remote address can be resolved.
IdentityResolved(conn) == conn.remoteTS /\ conn.localTS /\ conn.whois

\* The connection info of the auth connection, with the given key.
AuthCI(key) == ConnInfo(now, auth.conn.sshUser, key)

\* Rule i has a principal that matches the mesh identity and lists a key.
HasKeyedPrincipal(i) ==
    /\ ~policy.Rules[i].nil
    /\ \E j \in 1..Len(policy.Rules[i].Principals) :
         LET q == policy.Rules[i].Principals[j] IN
           /\ ~q.nil
           /\ principalMatchesTailscaleIdentity(q, AuthCI(NilKey))
           /\ Len(q.PubKeys) > 0

\* C13 as stated: requiresPubKey returns true whenever the mesh identity can
\* be resolved and some rule of the policy has a principal that matches it
\* and lists at least one key; it returns false when there is no policy or
\* the identity cannot be resolved.
C13_KeyedPrincipalRequiresKey ==
    auth.requiresPubKey # "" =>
        /\ ( /\ ~policy.nil
             /\ IdentityResolved(auth.conn)
             /\ \E i \in 1..Len(policy.Rules) : HasKeyedPrincipal(i) )
           => auth.requiresPubKey = "true"
        /\ (policy.nil \/ ~IdentityResolved(auth.conn)) => auth.requiresPubKey = "false"

\* The policy lets the connection in without a key: the first rule matching a
\* connection that presents no key carries Accept or HoldAndDelegate.
OpenWithoutKey ==
    LET M == MatchingRules(policy, AuthCI(NilKey)) IN
    /\ M # {}
    /\ LET a == policy.Rules[Min(M)].Action IN a.Accept \/ a.HoldAndDelegate # ""

\* Rule i is one the scan of requiresPubKey looks into: not expired, and
\* mapping the requested user.
Scanned(i) ==
    LET r == policy.Rules[i] IN
    /\ ~r.nil
    /\ ~(r.RuleExpires # NilTime /\ r.RuleExpires < now)
    /\ mapLocalUser(r.SSHUsers, auth.conn.sshUser) # ""

\* The places <<rule, principal>> of the policy where the scan answers true.
KeyHits ==
    UNION { { <<i, j>> : j \in { k \in 1..Len(policy.Rules[i].Principals) :
                                  LET q == policy.Rules[i].Principals[k] IN
                                    /\ ~q.nil
                                    /\ principalMatchesTailscaleIdentity(q, AuthCI(NilKey))
                                    /\ Len(q.PubKeys) > 0 } }
            : i \in { r \in 1..Len(policy.Rules) : Scanned(r) } }

\* The places where the scan meets a nil pointer: a nil rule (principal 0),
\* or a nil principal of a rule it looks into.
NilPlaces ==
    { <<i, 0>> : i \in { r \in 1..Len(policy.Rules) : policy.Rules[r].nil } }
    \cup
    UNION { { <<i, j>> : j \in { k \in 1..Len(policy.Rules[i].Principals) :
                                  policy.Rules[i].Principals[k].nil } }
            : i \in { r \in 1..Len(policy.Rules) : Scanned(r) } }

\* Place e comes before place f in the scan.
ScanBefore(e, f) == e[1] < f[1] \/ (e[1] = f[1] /\ e[2] < f[2])

\* C13, amended: requiresPubKey returns true exactly when there is a policy,
\* the mesh identity is resolved, the policy does not already let the
\* connection in without a key, and the scan of the rules that are not
\* expired and map the requested user reaches a principal that matches the
\* identity and lists a key before it reaches any nil rule or nil principal;
\* reaching a nil one first crashes the call; in every other case, among them
\* no policy and an unresolved identity, it returns false.
C13_RequiresPubKey ==
    auth.requiresPubKey # "" =>
        LET scans == (~policy.nil) /\ IdentityResolved(auth.conn) /\ ~OpenWithoutKey IN
        /\ auth.requiresPubKey = "true" <=>
             (scans /\ \E h \in KeyHits : \A n \in NilPlaces : ScanBefore(h, n))
        /\ auth.requiresPubKey = "panic" <=>
             (scans /\ \E n \in NilPlaces : \A h \in KeyHits : ScanBefore(n, h))
        /\ auth.requiresPubKey \in {"true", "false", "panic"}

\* C13 witness: a keyed principal matches the identity, yet the answer is
\* false because the policy lets the connection in without a key.
C13_Witness ==
    /\ auth.requiresPubKey = "false"
    /\ ~policy.nil /\ IdentityResolved(auth.conn)
    /\ OpenWithoutKey
    /\ \E i \in 1..Len(policy.Rules) : HasKeyedPrincipal(i)

\* C13 witness: the answer is true, from the second rule, the first one
\* having expired.
C13_WitnessTrue ==
    /\ auth.requiresPubKey = "true"
    /\ Len(policy.Rules) = 2
    /\ policy.Rules[1].RuleExpires = RuleExpiry /\ RuleExpiry < now
    /\ KeyHits = {<<2, 1>>}

\* C13 witness: a keyed principal matches the identity, the policy does not
\* let the connection in without a key, and the answer is false because the
\* rule does not map the requested user.
C13_WitnessUnmapped ==
    /\ auth.requiresPubKey = "false"
    /\ ~policy.nil /\ IdentityResolved(auth.conn)
    /\ ~OpenWithoutKey
    /\ KeyHits = {} /\ NilPlaces = {}
    /\ \E i \in 1..Len(policy.Rules) : HasKeyedPrincipal(i)

\* C14: acceptPubKey returns true iff evaluating the policy for the user, the
\* two addresses and the presented key succeeds (a policy, two mesh
\* addresses, a WhoIs answer, a matching rule) and the first matching rule's
\* action has Accept set or a non-empty HoldAndDelegate; so it is false with
\* no policy, a non-mesh address, a failed WhoIs, no matching rule, and a
\* matched plain Reject.
C14_AcceptPubKey ==
    auth.acceptPubKey # "" =>
        LET M == IF policy.nil THEN {} ELSE MatchingRules(policy, AuthCI(auth.conn.pubKey)) IN
        auth.acceptPubKey = "true" <=>
            /\ ~policy.nil
            /\ auth.conn.remoteTS /\ auth.conn.localTS /\ auth.conn.whois
            /\ M # {}
            /\ LET a == policy.Rules[Min(M)].Action IN a.Accept \/ a.HoldAndDelegate # ""

\* C14 witness: the presented key is on the list of the matching principal and
\* the key is accepted, while the same policy would not let in a connection
\* without a key.
C14_Witness ==
    /\ auth.acceptPubKey = "true"
    /\ ~OpenWithoutKey
    /\ auth.conn.pubKey.Marshal = "k1"

\* C14 witness: the first matching rule carries HoldAndDelegate and the key is
\* accepted.
C14_WitnessHold ==
    /\ auth.acceptPubKey = "true"
    /\ LET M == MatchingRules(policy, AuthCI(auth.conn.pubKey)) IN
         policy.Rules[Min(M)].Action = HoldAction

\* C14 witness: the first matching rule is a plain Reject and the key is
\* refused.
C14_WitnessReject ==
    /\ auth.acceptPubKey = "false"
    /\ ~policy.nil /\ IdentityResolved(auth.conn)
    /\ LET M == MatchingRules(policy, AuthCI(auth.conn.pubKey)) IN
         M # {} /\ policy.Rules[Min(M)].Action = RejectAction

\* The principals ps without the nil ones.
RECURSIVE NonNil(_)
NonNil(ps) ==
    IF ps = <<>> THEN <<>>
    ELSE IF ps[1].nil THEN NonNil(Tail(ps))
    ELSE <<ps[1]>> \o NonNil(Tail(ps))

IsDeadRule(r) == r.nil \/ r.Action.nil

\* The policy without its nil rules, its rules with a nil action and the nil
\* principals of the rules left.
RECURSIVE CleanRules(_)
CleanRules(rs) ==
    IF rs = <<>> THEN <<>>
    ELSE IF IsDeadRule(rs[1]) THEN CleanRules(Tail(rs))
    ELSE <<[rs[1] EXCEPT !.Principals = NonNil(rs[1].Principals)]>>
         \o CleanRules(Tail(rs))

Cleaned(p) == IF p.nil THEN p ELSE [p EXCEPT !.Rules = CleanRules(p.Rules)]

\* C25: nil rules, rules with a nil action and nil principals never make a
\* policy walk fail: requiresPubKey and the evaluation of the policy (here
\* under acceptPubKey) skip them and answer as they do for the policy with
\* these entries removed.
C25_NilEntriesSkipped ==
    /\ auth.requiresPubKey # "" =>
         /\ auth.requiresPubKey # "panic"
         /\ auth.requiresPubKey = requiresPubKey(Cleaned(policy), auth.conn, now)
    /\ auth.acceptPubKey # "" =>
         (auth.acceptPubKey = "true") = acceptPubKey(Cleaned(policy), auth.conn, now)

\* C25, the part the code keeps: the evaluation of the policy skips the
\* entries and gives the result of the policy without them.
C25_EvalSkipsNilEntries ==
    /\ auth.acceptPubKey # "" =>
         (auth.acceptPubKey = "true") = acceptPubKey(Cleaned(policy), auth.conn, now)
    /\ (~policy.nil) =>
         evalSSHPolicy(policy, AuthCI(auth.conn.pubKey))
           = evalSSHPolicy(Cleaned(policy), AuthCI(auth.conn.pubKey))

\* C25: requiresPubKey fails on a nil rule that the policy without it
\* answers false for.
C25_NilRulePanics ==
    /\ auth.requiresPubKey = "panic"
    /\ \E i \in 1..Len(policy.Rules) : policy.Rules[i].nil
    /\ requiresPubKey(Cleaned(policy), auth.conn, now) = "false"

\* C25: requiresPubKey fails on a nil principal.
C25_NilPrincipalPanics ==
    /\ auth.requiresPubKey = "panic"
    /\ \A i \in 1..Len(policy.Rules) : ~policy.Rules[i].nil

\* C25: requiresPubKey answers true from a rule with a nil action, where the
\* policy without it answers false.
C25_NilActionCounts ==
    /\ auth.requiresPubKey = "true"
    /\ requiresPubKey(Cleaned(policy), auth.conn, now) = "false"

\* The connection of the auth phase, presenting key k.
AuthConnWith(k) == [auth.conn EXCEPT !.pubKey = k]

\* Some client key would be let in by acceptPubKey.
SomeKeyAccepted ==
    \E k \in {Key("ssh-ed25519", "k1"), Key("ssh-ed25519", "k2"), Key("ssh-ed25519", "k3")} :
        acceptPubKey(policy, AuthConnWith(k), now)

\* The evaluation of the policy without a key yields Accept or
\* HoldAndDelegate.
AcceptedWithoutKey ==
    LET e == evaluatePolicy(policy, AuthConnWith(NilKey), now) IN
    e.err = "" /\ (e.a.Accept \/ e.a.HoldAndDelegate # "")

\* C33: the none-auth probe never hides a usable key rule: when there is a
\* client key that acceptPubKey would let in, the evaluation of the policy
\* without a key already yields Accept or HoldAndDelegate, or requiresPubKey
\* returns true.
C33_ProbeAsksForUsableKey ==
    (auth.requiresPubKey # "" /\ SomeKeyAccepted) =>
        (AcceptedWithoutKey \/ auth.requiresPubKey = "true")

\* C33, the part the code keeps: the same, for the calls of requiresPubKey
\* that return.
C33_ProbeThatReturnsAsks ==
    (auth.requiresPubKey \in {"true", "false"} /\ SomeKeyAccepted) =>
        (AcceptedWithoutKey \/ auth.requiresPubKey = "true")

\* C33: the state the code gets wrong: the presented key is let in by the
\* second rule, no rule lets the connection in without a key, and
\* requiresPubKey has failed on the nil rule before it.
C33_ProbeCrashedBeforeKeyRule ==
    /\ auth.requiresPubKey = "panic" /\ auth.acceptPubKey = "true"
    /\ ~AcceptedWithoutKey
    /\ Len(policy.Rules) = 2 /\ policy.Rules[1].nil

\* C33: a usable key rule the probe asks for: nothing is let in without a
\* key, the presented key is let in, and requiresPubKey has returned true.
C33_ProbeAsked ==
    /\ auth.requiresPubKey = "true" /\ auth.acceptPubKey = "true"
    /\ ~AcceptedWithoutKey

-----------------------------------------------------------------------------
(* Specification SpecRun: sshSession.run of one accepted session, with     *)
(* its timer, its agent forwarding, its setup errors, its child and its    *)
(* client, which may go away.                                              *)

\* The accepted actions: untimed, timed, and with a duration below zero.
RunActions == {AcceptAction, TimedAccept, LapsedAccept}

RunPolicies == { PolicyOf(a, SameUser, NilTime) : a \in RunActions }

InitRun ==
    /\ policy \in RunPolicies
    /\ policyChanges = 0
    /\ euid \in {0, 1000, 1001}
    /\ EmptyRegistry
    /\ ss = [s \in OneSession |-> IdleSession]
    /\ PolicyIdle
    /\ RecordingIdle
    /\ CacheIdle

NextRun ==
    \/ \E s \in DOMAIN ss : HandleSSH(s, AliceConn, "h1", "x1")
    \/ \E s \in DOMAIN ss : RunStart(s)
    \/ \E s \in DOMAIN ss, g \in AgentOutcomes, o \in SetupOutcomes : RunLaunch(s, g, o)
    \/ \E s \in DOMAIN ss, code \in {0, 3} : ChildExit(s, code)
    \/ \E s \in DOMAIN ss : killProcessOnContextDone(s)
    \/ \E s \in DOMAIN ss : WaitReturn(s)
    \/ \E s \in DOMAIN ss : RunAfterWait(s)
    \/ \E s \in DOMAIN ss : RunReturn(s)
    \/ \E s \in DOMAIN ss : TimerFire(s)
    \/ \E s \in DOMAIN ss : ClientDisconnect(s)

SpecRun == InitRun /\ [][NextRun]_vars

\* The goroutines of the session and the runtime's timer get to run; the
\* child and the client are under no obligation.
FairSpecRun ==
    /\ SpecRun
    /\ \A s \in OneSession : WF_vars(RunStart(s))
    /\ \A s \in OneSession :
          WF_vars(\E g \in AgentOutcomes, o \in SetupOutcomes : RunLaunch(s, g, o))
    /\ \A s \in OneSession : WF_vars(killProcessOnContextDone(s))
    /\ \A s \in OneSession : WF_vars(WaitReturn(s))
    /\ \A s \in OneSession : WF_vars(RunAfterWait(s))
    /\ \A s \in OneSession : WF_vars(RunReturn(s))
    /\ \A s \in OneSession : WF_vars(TimerFire(s))

-----------------------------------------------------------------------------
(* Properties of SpecRun.                                                  *)

\* The session's context was cancelled by the session-duration timer.
TimedOut(s) == ss[s].ctx.closed /\ ss[s].ctx.cause = "timeout"

\* C15: the session-duration timer is armed only when SesssionDuration is
\* greater than 0: a session whose duration is 0 or below is never timed and
\* never cancelled with the 'Session timeout' cause.
C15_TimedOnlyWhenPositive ==
    \A s \in DOMAIN ss :
        (ss[s].resolved /\ ss[s].action.SesssionDuration <= 0) =>
            /\ ss[s].timer = "none"
            /\ ~TimedOut(s)

\* What holds of the timer: a session of duration 0 is never timed, and the
\* timer of any other session, firing while the context is open, cancels it
\* with the 'Session timeout' cause.
C15_ZeroUntimed ==
    \A s \in DOMAIN ss :
        /\ (ss[s].resolved /\ ss[s].action.SesssionDuration = 0) =>
              (ss[s].timer = "none" /\ ~TimedOut(s))
        /\ ss[s].timer = "fired" => ss[s].ctx.closed

\* C18 as stated: every setup error of run is terminal: when the recording
\* cannot be created, when agent forwarding cannot be set up, or when the
\* process cannot switch to the user, the session exits with code 1 and no
\* child is launched.
C18_SetupErrorsTerminal ==
    \A s \in DOMAIN ss :
        (\/ ss[s].setup \in {"can't switch user", "recording failed"}
         \/ ss[s].agent = "failed")
        => (ss[s].exited /\ ss[s].exitCode = 1 /\ ss[s].child = "none")

\* C18, amended: a refusal to switch user, a recording that cannot be created
\* and a process that cannot be started are terminal (exit code 1, no
\* child); a failure of agent forwarding is not: run goes on to the recording
\* and the launch, and the child runs when these succeed.
C18_SetupErrors ==
    \A s \in DOMAIN ss :
        /\ ss[s].setup \in {"can't switch user", "recording failed", "start failed"}
           => (ss[s].exited /\ ss[s].exitCode = 1 /\ ss[s].child = "none")
        /\ ss[s].agent = "failed"
           => /\ ss[s].setup \in SetupOutcomes
              /\ ss[s].setup = "started" => ss[s].child # "none"

\* C18 witness: agent forwarding failed and the child runs.
C18_Witness ==
    \E s \in DOMAIN ss :
        /\ ss[s].agent = "failed"
        /\ ss[s].child = "running"
        /\ ~ss[s].exited

\* C18 witness: the recording could not be created; the session has exited
\* with code 1 without a child, and the agent listener was closed.
C18_WitnessRecording ==
    \E s \in DOMAIN ss :
        /\ ss[s].setup = "recording failed"
        /\ ss[s].pc = "exited" /\ ss[s].exitCode = 1 /\ ss[s].child = "none"
        /\ ss[s].agent = "closed"

\* C18 witness: the process runs as uid 1001 and cannot switch to alice.
C18_WitnessUid ==
    \E s \in DOMAIN ss :
        /\ ss[s].setup = "can't switch user"
        /\ euid = 1001
        /\ ss[s].exited /\ ss[s].exitCode = 1 /\ ss[s].child = "none"

\* C20: when the client disconnects while the child runs, the session
\* context is eventually cancelled and the child stops running.
C20_DisconnectCancels ==
    \A s \in OneSession :
        (ss[s].client = "gone" /\ ss[s].child = "running")
            ~> (ss[s].ctx.closed /\ ss[s].child # "running")

\* What holds when the context is cancelled, by the timer or by the return
\* of run: the child stops running.
C20_CancelKills ==
    \A s \in OneSession :
        (ss[s].ctx.closed /\ ss[s].child = "running") ~> (ss[s].child # "running")

\* run has returned for session s: it got past startSession (setup tells how
\* far it went) and its deferred calls are done.
RunReturned(s) == ss[s].pc = "exited" /\ ss[s].setup # ""

\* run is in progress for session s, between startSession and the end of the
\* deferred calls.
RunInProgress(s) == ss[s].pc \in {"setup", "wait", "once", "return"}

\* C27: on every path by which run returns (the uid refusal, a recording
\* that cannot start, a process that cannot start, the exit of the child, its
\* kill) the session is out of both indices and its context is cancelled; the
\* indices hold only sessions whose run is in progress.
C27_ReturnedRunUnregistered ==
    \A s \in DOMAIN ss :
        /\ RunReturned(s) =>
             /\ \A h \in HKeys : activeSessionByH[h] # s
             /\ \A x \in SKeys : activeSessionBySharedID[x] # s
             /\ ss[s].ctx.closed
        /\ (\E h \in HKeys : activeSessionByH[h] = s) => RunInProgress(s)
        /\ (\E x \in SKeys : activeSessionBySharedID[x] = s) => RunInProgress(s)

\* C27 witness: run has returned after the kill of the child.
C27_Witness ==
    \E s \in DOMAIN ss :
        /\ RunReturned(s) /\ ss[s].child = "killed"
        /\ ss[s].ctx = [closed |-> TRUE, cause |-> "timeout"]

\* C27 witness: run has returned after the exit of the child.
C27_WitnessExit ==
    \E s \in DOMAIN ss :
        /\ RunReturned(s) /\ ss[s].child = "exited" /\ ss[s].exitCode = 3
        /\ ss[s].ctx = [closed |-> TRUE, cause |-> "done"]

\* C27 witness: run has returned from the uid refusal.
C27_WitnessUid ==
    \E s \in DOMAIN ss : RunReturned(s) /\ ss[s].setup = "can't switch user"

\* C27 witness: run has returned because the recording could not start.
C27_WitnessRecording ==
    \E s \in DOMAIN ss : RunReturned(s) /\ ss[s].setup = "recording failed"

\* C27 witness: run has returned because the process could not start.
C27_WitnessLaunch ==
    \E s \in DOMAIN ss : RunReturned(s) /\ ss[s].setup = "start failed"

\* cmd.Wait has returned for a child that exited on its own, the context of
\* the session is still open, and nothing was killed or reported so far.
ExitedBeforeCancel(s) ==
    /\ ss[s].pc \in {"once", "return", "exited"}
    /\ ss[s].child = "exited"
    /\ ~ss[s].ctx.closed
    /\ ss[s].kills = 0 /\ ss[s].termMsgs = 0

\* C28: the context watcher kills and writes a termination message only
\* while the child still runs: once cmd.Wait has returned for a child that
\* exited on its own, no later cancellation of the context (timer, policy
\* revocation, the close at the end of the session) leads to a Kill call or
\* to a termination message.
C28_NoKillAfterWait ==
    \A s \in OneSession :
        [](ExitedBeforeCancel(s) => [](ss[s].kills = 0 /\ ss[s].termMsgs = 0))

\* C28, the part the code keeps: once run has gone through its own
\* exitOnce.Do after cmd.Wait, the watcher neither kills nor writes.
C28_NoKillAfterOnce ==
    [][\A s \in DOMAIN ss :
          (ss[s].pc \in {"return", "exited"} /\ ss[s].child = "exited") =>
              (ss'[s].kills = ss[s].kills /\ ss'[s].termMsgs = ss[s].termMsgs)]_vars

\* C28: the state the code gets wrong: the child exited with code 0, the
\* timer fired after cmd.Wait had returned, and the watcher has written the
\* timeout message and called Kill.
C28_KilledAfterExit ==
    \E s \in DOMAIN ss :
        /\ ss[s].child = "exited" /\ ss[s].childCode = 0
        /\ ss[s].kills = 1 /\ ss[s].termMsgs = 1
        /\ ss[s].ctx.cause = "timeout"

\* C29: when the setup of agent forwarding fails after the listener was
\* created (the parse of the uid or of the gid, the chown of the socket, the
\* chmod of its directory), the listener is closed before
\* handleSSHAgentForwarding returns and ss.agentListener stays nil; when the
\* setup succeeds the listener is closed when run returns; no listener is
\* open after the session has ended.
C29_ListenerClosed ==
    \A s \in DOMAIN ss :
        /\ ss[s].agentErr \in {"ParseUint uid", "ParseUint gid", "Chown", "Chmod"} =>
              (ss[s].ln = "closed" /\ ss[s].agent = "failed")
        /\ ss[s].pc = "exited" => ss[s].ln # "open"

\* C29, the part the code keeps: a failed parse of the uid or of the gid
\* closes the listener before the return, a failure never sets
\* ss.agentListener, and the listener of a setup that succeeded is open while
\* run is in progress and closed once run has returned.
C29_ParseFailureCloses ==
    \A s \in DOMAIN ss :
        /\ ss[s].agentErr \in {"ParseUint uid", "ParseUint gid"} => ss[s].ln = "closed"
        /\ ss[s].agentErr # "" => ss[s].agent = "failed"
        /\ ss[s].agent = "listening" => (ss[s].ln = "open" /\ RunInProgress(s))
        /\ (ss[s].agentErr = "" /\ ss[s].pc = "exited") => ss[s].ln # "open"

\* C29: the state the code gets wrong: the chown of the socket failed, run
\* has returned, and the listener is still open.
C29_ListenerLeaked ==
    \E s \in DOMAIN ss :
        /\ ss[s].agentErr = "Chown"
        /\ ss[s].pc = "exited"
        /\ ss[s].ln = "open"

-----------------------------------------------------------------------------
(* Specification SpecRecording: the stdin pump and the stdout pump of a    *)
(* session writing through one recording, which run closes when it         *)
(* returns.                                                                *)

InitRecording ==
    /\ recording = NewRecording
    /\ PolicyIdle
    /\ CacheIdle
    /\ SessionsIdle

NextRecording ==
    \/ \E d \in Dirs : WriteBegin(d)
    \/ \E d \in Dirs, fileOK \in BOOLEAN : writeCastLine(d, fileOK)
    \/ \E d \in Dirs, res \in UnderlyingResults : WriteForward(d, res)
    \/ RecordingClose
    \/ RecordingTick

SpecRecording == InitRecording /\ [][NextRecording]_vars

-----------------------------------------------------------------------------
(* Properties of SpecRecording.                                            *)

\* The Write call of writer d has returned.
Returned_Write(d) == recording.w[d].pc = "idle" /\ recording.w[d].calls > 0

\* C16: after the recording has been closed, a Write through a recording
\* writer drops the cast line but still hands the bytes to the underlying
\* writer and returns that writer's count and error.
C16_ClosedStillForwards ==
    \A d \in Dirs :
        (Returned_Write(d) /\ recording.w[d].dropped = "logger closed") =>
            /\ recording.w[d].forwarded
            /\ recording.w[d].n = recording.w[d].wn
            /\ recording.w[d].err = recording.w[d].werr

\* What holds of a Write whose cast line was dropped: the underlying writer
\* is not called and Write returns 0 and a nil error.
C16_DroppedNotForwarded ==
    \A d \in Dirs :
        (Returned_Write(d) /\ recording.w[d].dropped # "") =>
            (~recording.w[d].forwarded /\ recording.w[d].n = 0 /\ recording.w[d].err = "")

\* C17: with both pumps writing through the same recording, the event lines
\* are in the file in the order in which their Write calls began, and the
\* timestamps of successive lines do not decrease.
C17_LinesInOrder ==
    \A k \in 1..(Len(recording.file) - 1) :
        /\ recording.file[k].seq < recording.file[k + 1].seq
        /\ recording.file[k].t <= recording.file[k + 1].t

\* What holds of the file: the lines of one writer are in the order of its
\* calls, with timestamps that do not decrease.
C17_PerWriterInOrder ==
    \A k, l \in 1..Len(recording.file) :
        (k < l /\ recording.file[k].dir = recording.file[l].dir) =>
            (recording.file[k].seq < recording.file[l].seq /\ recording.file[k].t <= recording.file[l].t)

-----------------------------------------------------------------------------
(* Specification SpecFetch: a connection whose rule delegates, and the     *)
(* calls of fetchSSHAction that resolveTerminalAction makes for it.        *)

\* What the control plane can answer with.
FetchActions == {AcceptAction, RejectAction, HoldAction, BadHold}

FetchPolicies == { PolicyOf(a, SameUser, NilTime) : a \in {HoldAction, BadHold} }

InitFetch ==
    /\ policy \in FetchPolicies
    /\ policyChanges = 0
    /\ euid = 0
    /\ EmptyRegistry
    /\ ss = [s \in OneSession |-> IdleSession]
    /\ PolicyIdle
    /\ RecordingIdle
    /\ CacheIdle

NextFetch ==
    \/ \E s \in DOMAIN ss : HandleSSH(s, AliceConn, "h1", "x1")
    \/ \E s \in DOMAIN ss, a \in FetchActions : FetchReply(s, a)
    \/ \E s \in DOMAIN ss, k \in FetchFailures : FetchRetry(s, k)
    \/ \E s \in DOMAIN ss : BudgetElapse(s)
    \/ \E s \in DOMAIN ss : ClientDisconnect(s)
    \/ \E s \in DOMAIN ss : FetchAbort(s)

SpecFetch == InitFetch /\ [][NextFetch]_vars

-----------------------------------------------------------------------------
(* Properties of SpecFetch.                                                *)

\* C19 as stated, its second part: fetchSSHAction gives up with an error
\* only when the session context is cancelled or the 30 minutes have passed.
C19_GivesUpOnlyOnContext ==
    \A s \in DOMAIN ss :
        ss[s].fetchErr # "" => ss[s].fetchErr \in {"canceled", "deadline exceeded"}

\* A step of a session inside fetchSSHAction: a failed attempt (transport
\* error, status other than 200, body that does not decode) leaves the call
\* in its loop, without an error; the call returns an error only when its
\* context is done or the request cannot be built from the URL; the session
\* gets its next action only from a 200 answer with a body that decodes,
\* received while the context was not done.
FetchStep ==
    \A s \in DOMAIN ss :
        ss[s].pc = "fetch" =>
            /\ ss'[s].retries # ss[s].retries =>
                  /\ ss'[s].pc = "fetch" /\ ss'[s].fetchErr = "" /\ ~ss'[s].exited
                  /\ ss'[s].lastFetch \in FetchFailures
                  /\ ss'[s].action = ss[s].action
            /\ ss'[s].fetchErr # "" =>
                  /\ \/ ss[s].fetchCtx # ""
                     \/ ~NewRequestOK(ss[s].action.HoldAndDelegate)
                  /\ ss'[s].fetchErr = IF ss[s].fetchCtx # "" THEN ss[s].fetchCtx
                                       ELSE "invalid URL"
                  /\ ss'[s].exited /\ ss'[s].exitCode = 1
            /\ ss'[s].hops # ss[s].hops =>
                  /\ ss'[s].lastFetch = "200"
                  /\ ss[s].fetchCtx = ""
                  /\ NewRequestOK(ss[s].action.HoldAndDelegate)
            /\ (ss'[s].pc # "fetch" \/ ss'[s].action # ss[s].action) =>
                  (ss'[s].fetchErr # "" \/ ss'[s].hops # ss[s].hops)

\* C19, amended: fetchSSHAction tries again after every transport error,
\* every status other than 200 and every body that does not decode; it gives
\* up with an error only when its context is done (session context cancelled
\* or 30 minutes passed) or when no request can be built from the URL; it
\* returns an action only from a 200 answer whose body decoded.
C19_FetchLoop == [][FetchStep]_vars

\* C19 witness: the call has given up on a malformed URL, with the client
\* connected and the 30 minutes not yet passed.
C19_Witness ==
    \E s \in DOMAIN ss :
        /\ ss[s].fetchErr = "invalid URL"
        /\ ss[s].fetchCtx = "" /\ ss[s].client = "connected"
        /\ ss[s].exited /\ ss[s].exitCode = 1

\* C19 witness: after a body that did not decode, a 200 answer carried
\* Accept.
C19_WitnessRetried ==
    \E s \in DOMAIN ss :
        /\ ss[s].retries = 1 /\ ss[s].hops = 1
        /\ ss[s].lastFetch = "200"
        /\ ss[s].action = AcceptAction /\ ss[s].pc = "run"

\* C19 witness: the client went away during the call, which gave up.
C19_WitnessCanceled ==
    \E s \in DOMAIN ss :
        /\ ss[s].fetchErr = "canceled"
        /\ ss[s].client = "gone"
        /\ ss[s].exited

-----------------------------------------------------------------------------
(* Specification SpecMatch: matchRule, through evalSSHPolicy, applied to   *)
(* every policy of one rule over a range of user mappings, key lists,      *)
(* presented keys and key resolvers.                                       *)

\* The user mappings: none, and every map from some of the keys "alice" and
\* "*" to "", "=" or "bob".
UserMaps ==
    {NilMap} \cup
    { Map(f) : f \in UNION { [D -> {"", "=", "bob"}] : D \in SUBSET {"alice", "*"} } }

KeysURL       == <<"https://host/a.keys">>
WrongTypeLine == <<"ssh-rsa", "azE=">>
NotBase64Line == <<"ssh-ed25519", "%%%">>
CorruptTail   == <<"ssh-ed25519", "azE=%%%", "comment">>
OneFieldLine  == <<"ssh-ed25519">>

\* The PubKeys lists of a principal.
KeyLists ==
    { <<>>, <<KeyLine1>>, <<KeyLine2, KeyLine1>>, <<KeysURL>>, <<KeysURL, KeyLine1>>,
      <<WrongTypeLine>>, <<NotBase64Line>>, <<OneFieldLine>>, <<CorruptTail>> }

MatchRules ==
    { Rule(a, NilTime, u, <<Principal(TRUE, "", "", "", ks)>>) :
        a \in {AcceptAction, RejectAction}, u \in UserMaps, ks \in KeyLists }

\* ci.fetchPublicKeysURL: no resolver, a resolver that fails, and resolvers
\* that return a list.
Resolvers ==
    { [nil |-> TRUE, err |-> FALSE, lines |-> <<>>],
      [nil |-> FALSE, err |-> TRUE, lines |-> <<>>] } \cup
    { [nil |-> FALSE, err |-> FALSE, lines |-> ls] :
        ls \in { <<>>, <<KeyLine1>>, <<KeyLine2, WrongTypeLine>>, <<OneFieldLine, KeyLine1>> } }

\* The keys a client presents: none, the key of KeyLine1, a key of another
\* type with the same bytes, and a key on no list.
PresentedKeys ==
    { NilKey, Key("ssh-ed25519", "k1"), Key("ssh-rsa", "k1"), Key("ssh-ed25519", "k3") }

MatchConnInfos ==
    { [ConnInfo(0, u, k) EXCEPT !.fetchPublicKeysURL = f] :
        u \in {"alice", "carol"}, k \in PresentedKeys, f \in Resolvers }

InitMatch ==
    /\ pol \in { Policy(<<r>>) : r \in MatchRules }
    /\ ci \in MatchConnInfos
    /\ evalRes = NotEvaluated
    /\ auth = NoAuth
    /\ CacheIdle
    /\ SessionsIdle
    /\ RecordingIdle

NextMatch == Eval

SpecMatch == InitMatch /\ [][NextMatch]_vars

-----------------------------------------------------------------------------
(* Properties of SpecMatch.                                                *)

\* The one rule of the policy, its user mapping and its principal.
TheRule      == pol.Rules[1]
TheUsers     == TheRule.SSHUsers
ThePrincipal == TheRule.Principals[1]

\* The value "=" stands for the requested name.
Named(v) == IF v = "=" THEN ci.sshUser ELSE v

\* The local user the mapping gives the requested user: the entry of the
\* requested user when the map has that key, else the "*" entry when the map
\* has one, else none.
MappedUser ==
    IF (~TheUsers.nil) /\ ci.sshUser \in DOMAIN TheUsers.m
    THEN Named(TheUsers.m[ci.sshUser])
    ELSE IF (~TheUsers.nil) /\ "*" \in DOMAIN TheUsers.m
    THEN Named(TheUsers.m["*"])
    ELSE ""

\* C23: mapLocalUser uses the entry of the requested user whenever the map
\* has that key, even when its value is empty (no match then), and the "*"
\* entry only when the key is absent; "=" yields the requested name and any
\* other value is returned as it is.  Seen on the rules whose principal has
\* no key list and whose mapping is consulted.
C23_MapLocalUser ==
    (evalRes.done /\ ThePrincipal.PubKeys = <<>>
        /\ (~TheRule.Action.Reject \/ ~TheUsers.nil)) =>
        /\ evalRes.ok <=> MappedUser # ""
        /\ evalRes.localUser = MappedUser

\* C23 witness: the requested user's entry is empty and the map has a "*"
\* entry; nothing matches.
C23_Witness ==
    /\ evalRes.done /\ ~evalRes.ok
    /\ ThePrincipal.PubKeys = <<>>
    /\ TheUsers = Map([u \in {"alice", "*"} |-> IF u = "alice" THEN "" ELSE "bob"])
    /\ ci.sshUser = "alice"

\* C23 witness: the requested user has no entry and the "*" entry is "=".
C23_WitnessWildcard ==
    /\ evalRes.done /\ evalRes.ok /\ evalRes.localUser = "carol"
    /\ TheUsers = Map([u \in {"alice", "*"} |-> IF u = "alice" THEN "bob" ELSE "="])
    /\ ci.sshUser = "carol"

\* The user mapping of the rule has no entry: it is absent, or present with
\* zero entries.
EmptyUsers == TheUsers.nil \/ DOMAIN TheUsers.m = {}

\* C24: a rule whose user mapping is empty matches no connection unless its
\* action is Reject: a Reject rule with an empty mapping, absent or present
\* with zero entries, matches with local user "" when one of its principals
\* matches, and a rule that is not Reject never matches with an empty mapping.
C24_EmptyUsersOnlyReject ==
    (evalRes.done /\ EmptyUsers) =>
        IF TheRule.Action.Reject /\ anyPrincipalMatches(TheRule.Principals, ci)
        THEN evalRes.ok /\ evalRes.localUser = "" /\ evalRes.a = TheRule.Action
        ELSE ~evalRes.ok

\* C24, the part the code keeps: the same with the mapping absent (nil), and
\* no match at all for a rule that is not Reject.
C24_AbsentUsersOnlyReject ==
    (evalRes.done /\ EmptyUsers /\ (TheUsers.nil \/ ~TheRule.Action.Reject)) =>
        IF TheRule.Action.Reject /\ anyPrincipalMatches(TheRule.Principals, ci)
        THEN evalRes.ok /\ evalRes.localUser = "" /\ evalRes.a = TheRule.Action
        ELSE ~evalRes.ok

\* C24: the state the code gets wrong: a Reject rule whose mapping is present
\* with zero entries and whose principal matches, answered with no match.
C24_PresentEmptyRejectUnmatched ==
    /\ evalRes.done /\ ~evalRes.ok
    /\ TheRule.Action.Reject
    /\ ~TheUsers.nil /\ DOMAIN TheUsers.m = {}
    /\ anyPrincipalMatches(TheRule.Principals, ci)

\* The mapping lets the requested user through: it gives a name, or the rule
\* is a Reject without a mapping.
UserPasses == (TheRule.Action.Reject /\ TheUsers.nil) \/ MappedUser # ""

\* The single entry of the key list is a URL to resolve.
ByURL == Len(ThePrincipal.PubKeys) = 1 /\ ThePrincipal.PubKeys[1] = KeysURL

\* The URL cannot be resolved: no resolver, or the resolver fails.
Unresolvable == ci.fetchPublicKeysURL.nil \/ ci.fetchPublicKeysURL.err

\* The resolved key lines of the principal: those the resolver returns for
\* a single URL entry, else the entries themselves.
ResolvedLines ==
    IF ByURL
    THEN IF Unresolvable THEN <<>> ELSE ci.fetchPublicKeysURL.lines
    ELSE ThePrincipal.PubKeys

\* The line "type base64 [comment]" names the presented key: its type field
\* is the type of the key and the bytes of its base64 field are the
\* marshaling of the key.
NamesPresentedKey(line) ==
    /\ Len(line) >= 2
    /\ line[1] = ci.pubKey.Type
    /\ B64Decode(line[2]) # ""
    /\ B64Decode(line[2]) = ci.pubKey.Marshal

C26_WitnessNoResolver ==
    /\ evalRes.done /\ ~evalRes.ok
    /\ ByURL /\ ci.fetchPublicKeysURL.nil
    /\ UserPasses /\ ci.pubKey = Key("ssh-ed25519", "k1")

\* C26 witness: the resolver answers with an empty list: no match.
C26_WitnessEmptyList ==
    /\ evalRes.done /\ ~evalRes.ok
    /\ ByURL /\ ~Unresolvable /\ ResolvedLines = <<>>
    /\ UserPasses /\ ~ci.pubKey.nil

\* C26 witness: the line has the bytes of the key under another type: no
\* match.
C26_WitnessWrongType ==
    /\ evalRes.done /\ ~evalRes.ok
    /\ ThePrincipal.PubKeys = <<WrongTypeLine>>
    /\ UserPasses /\ ci.pubKey = Key("ssh-ed25519", "k1")

\* C26 witness: a URL among two entries is not resolved; the other entry
\* names the key.
C26_WitnessURLAmongLines ==
    /\ evalRes.done /\ evalRes.ok
    /\ ThePrincipal.PubKeys = <<KeysURL, KeyLine1>>
    /\ ci.fetchPublicKeysURL.nil

-----------------------------------------------------------------------------
(* Specification SpecForward: a connection whose client asks for local     *)
(* port forwarding at any time, from its authentication to after the end   *)
(* of its session.                                                         *)

\* Actions that allow local port forwarding.
ForwardAccept == [AcceptAction EXCEPT !.AllowLocalPortForwarding = TRUE]
ForwardReject == [RejectAction EXCEPT !.AllowLocalPortForwarding = TRUE]
ForwardHold   == [HoldAction EXCEPT !.AllowLocalPortForwarding = TRUE]
ForwardBoth   == [AcceptReject EXCEPT !.AllowLocalPortForwarding = TRUE]

ForwardActions == {AcceptAction, ForwardAccept, ForwardReject, ForwardHold}

\* What the control plane answers a delegated session with.
ForwardReplies == {AcceptAction, ForwardAccept, ForwardReject, ForwardBoth}

InitForward ==
    /\ policy \in { PolicyOf(a, SameUser, NilTime) : a \in ForwardActions }
    /\ policyChanges = 0
    /\ euid = 0
    /\ EmptyRegistry
    /\ ss = [s \in OneSession |-> IdleSession]
    /\ PolicyIdle
    /\ RecordingIdle
    /\ CacheIdle

NextForward ==
    \/ \E s \in DOMAIN ss, h \in HIDs : HandleSSH(s, AliceConn, h, "x1")
    \/ \E s \in DOMAIN ss, a \in ForwardReplies : FetchReply(s, a)
    \/ \E s \in DOMAIN ss : RunStart(s)
    \/ \E s \in DOMAIN ss, o \in {"started", "start failed"} : RunLaunch(s, "none", o)
    \/ \E s \in DOMAIN ss : ChildExit(s, 0)
    \/ \E s \in DOMAIN ss : killProcessOnContextDone(s)
    \/ \E s \in DOMAIN ss : WaitReturn(s)
    \/ \E s \in DOMAIN ss : RunAfterWait(s)
    \/ \E s \in DOMAIN ss : RunReturn(s)
    \/ \E s \in DOMAIN ss, h \in HIDs : MayForwardLocalPortTo(s, h)

SpecForward == InitForward /\ [][NextForward]_vars

-----------------------------------------------------------------------------
(* Properties of SpecForward.                                              *)

\* The answer e, given in a state, is right: true only when a session is
\* registered under the session id, its run is in progress and its resolved
\* action has Accept and AllowLocalPortForwarding; false when no session is
\* registered under the id.
RightAnswer(e) ==
    LET t == activeSessionByH[e.h] IN
    /\ e.ok => /\ t # 0
               /\ ss[t].idH = e.h
               /\ RunInProgress(t)
               /\ ss[t].resolved
               /\ ss[t].action.Accept
               /\ ss[t].action.AllowLocalPortForwarding
    /\ t = 0 => ~e.ok
    /\ (\A u \in DOMAIN ss : ss[u].idH = e.h =>
            ss[u].pc \in {"idle", "fetch", "run", "exited"}) => ~e.ok

\* A step that answers a port-forwarding request gives the right answer for
\* the state it starts from.
ForwardStep ==
    \A s \in DOMAIN ss :
        Len(ss'[s].forward) > Len(ss[s].forward) =>
            RightAnswer(ss'[s].forward[Len(ss'[s].forward)])

\* C30: mayForwardLocalPortTo returns true only while a session is
\* registered under the session id of the connection and the resolved action
\* of that session has Accept and AllowLocalPortForwarding; it returns false
\* before the session is registered (authentication, action resolution) and
\* after the session has ended.
C30_ForwardOnlyWhileRegistered == [][ForwardStep]_vars

\* C30 witness: the action allows port forwarding; the client was refused
\* before the session was registered, let through while it ran, and refused
\* after it had ended.
C30_Witness ==
    \E s \in DOMAIN ss :
        /\ ss[s].pc = "exited" /\ ss[s].action = ForwardAccept
        /\ ss[s].forward = << [h |-> "h1", ok |-> FALSE], [h |-> "h1", ok |-> TRUE],
                              [h |-> "h1", ok |-> FALSE] >>

\* C30 witness: the client is refused while the action, which allows port
\* forwarding, is being resolved by the control plane.
C30_WitnessResolving ==
    \E s \in DOMAIN ss :
        /\ ss[s].pc = "fetch" /\ ss[s].action = ForwardHold
        /\ ss[s].forward = << [h |-> ss[s].idH, ok |-> FALSE] >>

\* C30 witness: the session runs under an action that does not allow port
\* forwarding and the client is refused.
C30_WitnessNotAllowed ==
    \E s \in DOMAIN ss :
        /\ ss[s].child = "running" /\ ss[s].action = AcceptAction
        /\ ss[s].forward = << [h |-> ss[s].idH, ok |-> FALSE] >>

-----------------------------------------------------------------------------
(* Specification SpecResolve: resolveTerminalAction of a connection whose  *)
(* rule delegates, with the clock of each fetchSSHAction call and a        *)
(* control plane that answers what it likes, when it likes.                *)

ResolveReplies == {AcceptAction, RejectAction, HoldAction, HoldWithMsg, EmptyAction}

InitResolve ==
    /\ policy \in { PolicyOf(a, SameUser, NilTime) : a \in {HoldAction, HoldWithMsg} }
    /\ policyChanges = 0
    /\ euid = 0
    /\ EmptyRegistry
    /\ ss = [s \in OneSession |-> IdleSession]
    /\ PolicyIdle
    /\ RecordingIdle
    /\ CacheIdle

NextResolve ==
    \/ \E s \in DOMAIN ss : HandleSSH(s, AliceConn, "h1", "x1")
    \/ \E s \in DOMAIN ss, a \in ResolveReplies : FetchReply(s, a)
    \/ \E s \in DOMAIN ss : FetchReplyAgain(s)
    \/ \E s \in DOMAIN ss, k \in FetchFailures : FetchRetry(s, k)
    \/ \E s \in DOMAIN ss : BudgetTick(s)
    \/ \E s \in DOMAIN ss : BudgetExpire(s)
    \/ \E s \in DOMAIN ss : ClientDisconnect(s)
    \/ \E s \in DOMAIN ss : FetchAbort(s)

SpecResolve == InitResolve /\ [][NextResolve]_vars

\* The handler of the connection runs, time passes, a deadline that is
\* reached fires and fetchSSHAction looks at its context; the control plane
\* and the client are under no obligation.
FairSpecResolve ==
    /\ SpecResolve
    /\ \A s \in OneSession : WF_vars(HandleSSH(s, AliceConn, "h1", "x1"))
    /\ \A s \in OneSession : WF_vars(BudgetTick(s))
    /\ \A s \in OneSession : WF_vars(BudgetExpire(s))
    /\ \A s \in OneSession : WF_vars(FetchAbort(s))

-----------------------------------------------------------------------------
(* Properties of SpecResolve.                                              *)

\* C32: resolveTerminalAction always terminates: whatever the control plane
\* does, also when it answers every delegate fetch with another
\* HoldAndDelegate action, a session that is resolving its action eventually
\* has a terminal action or an error.
C32_ResolveTerminates ==
    \A s \in OneSession : (ss[s].pc = "fetch") ~> (ss[s].pc # "fetch")

\* C32, the part the code keeps: every call of fetchSSHAction ends: again
\* and again the session is out of the loop or at the start of a new call.
C32_EachFetchEnds ==
    \A s \in OneSession : []<>(ss[s].pc # "fetch" \/ ss[s].fetchAge = 0)

\* C32: a call of fetchSSHAction that the control plane does not answer with
\* an action ends with the deadline error once its 30 minutes have passed.
C32_BudgetEndsFetch ==
    \E s \in DOMAIN ss :
        /\ ss[s].pc = "exited" /\ ss[s].fetchErr = "deadline exceeded"
        /\ ss[s].fetchAge = FetchBudget /\ ss[s].client = "connected"

====
